---- MODULE Spec2Model ----
(***************************************************************************)
(* RGB-Node: refresh job queue, wallet locks, per-wallet worker            *)
(* supervisor, transfer watchers and the withdrawal state machine.         *)
(*                                                                         *)
(* The module holds one state space and several specifications over it,    *)
(* one per subsystem; a specification leaves the variables of the other    *)
(* subsystems unchanged:                                                   *)
(*   SpecJobs     src/queue/jobs.py + workers/processors/job_processor.py  *)
(*   SpecLocks    src/queue/locks.py + the lock-protected refresh sections *)
(*   SpecSup      workers/refresh_worker.py (supervisor)                   *)
(*   SpecWd       bitcoinl1/routes.py withdraw_end + withdrawal            *)
(*                orchestrator, one service process                        *)
(*   SpecWdKill   SpecWd plus kill/restart of the service process          *)
(*   SpecWatch    workers/processors/transfer_watcher.py watch_transfer    *)
(*   SpecTick       watch_transfer, one action per loop pass, with the     *)
(*                  node's transfers and their wire encodings              *)
(*   SpecProc       process_job with process_wallet_unified as a whole     *)
(*   SpecRecovery   src/queue/recovery.py recover_active_watchers          *)
(*   SpecCrash      SpecJobs with weak fairness on every worker's steps    *)
(*   SpecWalletJobs SpecJobs with dequeue_job_for_wallet only              *)
(*   SpecCap        SpecSup with one refresh request per wallet            *)
(*   SpecWait       SpecWd with a fair scheduler and clock, no crash       *)
(*   SpecLife       SpecWait with close_channel calls the node accepts     *)
(*                  before it starts closing the channel                   *)
(*   SpecReq        the REQUESTED block over BTC and asset channels        *)
(*   SpecSweep      the SWEEPING_OUTPUTS block, one request per wallet     *)
(*   SpecUpsert     src/queue/watchers.py calls in any order               *)
(*   SpecUnified    SpecProc with the loop of process_wallet_unified over  *)
(*                  the assets and transfers of the wallet                 *)
(*   SpecCancel     can_cancel_transfer over transfers and clock values    *)
(*   SpecShare      withdraw_begin / withdraw_end of two wallets           *)
(*   SpecOverlap    SpecWd with process_withdrawal invoked while an        *)
(*                  invocation runs                                        *)
(*   SpecLoop       workers/wallet_worker.py main loop of one wallet with  *)
(*                  process_job and watch_transfer under it                *)
(*   SpecLoopFair   SpecLoop with a fair worker process and clock          *)
(*   SpecRespawn    SpecCap with a fair supervisor and workers that end    *)
(*                  by their idle timeout                                  *)
(***************************************************************************)
EXTENDS Integers, Sequences, FiniteSets, TLC

\* ------------------------------------------------------------------------
\* Bounds of the model
\* ------------------------------------------------------------------------
MaxJobs == 2
MaxSpawns == 3
MaxRefresh == 2
MaxBalance == 3000
MaxWdTime == 600
WdTickSeconds == 300
ChannelSats == 1500
RequestedSats == 2000
MaxTime == 75
TickSeconds == 15
MaxWatchTime == 200
WatchTickSeconds == 181
TransferValidity == 100
MaxFailCalls == 2
MaxQueue == 4

\* ------------------------------------------------------------------------
\* Program constants
\* ------------------------------------------------------------------------
\* MAX_REFRESH_RETRIES is read from the environment (default "10"); the
\* model runs the configuration MAX_REFRESH_RETRIES=2.
MAX_RETRIES == 2
\* expiration_seconds passed by process_job for invoice_created jobs
INVOICE_TTL == 180
\* default of WATCHER_TTL
WATCHER_TTL == 86400
RGB_INVOICE_DURATION_SECONDS == 86400
\* WALLET_LOCK_TTL, and the default ttl of acquire_wallet_lock
WALLET_LOCK_TTL == 30
\* process_withdrawal: timeout_seconds, estimated_fee
BALANCE_TIMEOUT == 600
ESTIMATED_FEE == 1000

\* MAX_WALLET_PROCESSES is read from the environment (default "50"); the
\* model runs the configuration MAX_WALLET_PROCESSES=2.
MAX_WALLET_PROCESSES == 2

Wallets == {"w1", "w2"}
\* wallets known to the supervisor: one more than the process cap
SupWallets == Wallets \cup {"w3"}
Recipients == {"r1"}
Workers == {"p1", "p2"}
\* the worker processes that run process_watchers_for_wallet
WatchWorkers == {"p1"}

NoWorker == "none"
NoJob == 0
NoAsset == "none"
NoRecipient == "none"
NoRow == [status |-> "absent"]
NoLock == -1
NoPid == 0
NoneInt == -1
NoKey == <<"none", "none">>
NoTransfer == [recipient_id |-> "none"]
NoRecovery == [ran |-> FALSE]
\* the wallet worker before its process is started
WwOff == [pc |-> "off", shutdown |-> FALSE, has_work |-> FALSE, last_work_time |-> 0,
          todo |-> << >>, processed |-> 0, dequeued |-> FALSE, served |-> FALSE]
WtIdle == [pc |-> "idle", key |-> NoKey, asset_id |-> NoAsset, refresh_count |-> 0,
           transfer |-> NoTransfer, refreshed |-> "no"]
NoBody == [address |-> "none"]
NoWd == [status |-> "absent"]
NoId == "none"
FreeTask == [pc |-> "free", wd |-> NoId, idx |-> 0, ctx |-> << >>, amount |-> 0]
\* the channels of the node, in the order list_channels reports them
ChannelOrder == <<"c1", "c2">>
Channels == { ChannelOrder[i] : i \in DOMAIN ChannelOrder }
\* withdrawal ids (uuid4 values) and asyncio task slots
WdIds == {"wd1", "wd2"}
TaskSlots == {"t1", "t2"}
\* the wallets that call the withdrawal routes
WdWallets == {"w1"}
\* every wallet that has an entry in psbt_to_withdraw_map
AllWdWallets == {"w1", "w2"}
\* request bodies stored by withdraw_begin: a BTC withdrawal with an amount
\* and the default deduct_fee_from_amount
Bodies ==
    { [address |-> "bcrt1", amount_sats |-> RequestedSats, deduct_fee |-> TRUE,
       asset |-> NoAsset] }
\* further requests: a BTC withdrawal below the estimated fee, one without
\* fee deduction, and withdrawals of asset a1 to an RGB invoice (no amount)
SmallSats == 500
MoreBodies ==
    { [address |-> "bcrt1", amount_sats |-> SmallSats, deduct_fee |-> TRUE,
       asset |-> NoAsset],
      [address |-> "bcrt1", amount_sats |-> RequestedSats, deduct_fee |-> FALSE,
       asset |-> NoAsset],
      [address |-> "rgb:inv", amount_sats |-> NoneInt, deduct_fee |-> TRUE,
       asset |-> "a1"],
      [address |-> "rgb:inv", amount_sats |-> NoneInt, deduct_fee |-> FALSE,
       asset |-> "a1"] }
AllBodies == Bodies \cup MoreBodies
\* a channel as list_channels reports it: BTC channel with outbound balance
BtcChannel == [asset_id |-> NoAsset, outbound_balance_msat |-> 1,
               asset_outbound_amount |-> 0]
ChannelKinds ==
    { BtcChannel,
      [asset_id |-> NoAsset, outbound_balance_msat |-> 0, asset_outbound_amount |-> 0],
      [asset_id |-> "a1", outbound_balance_msat |-> 1, asset_outbound_amount |-> 1],
      [asset_id |-> "a1", outbound_balance_msat |-> 1, asset_outbound_amount |-> 0],
      [asset_id |-> "a2", outbound_balance_msat |-> 1, asset_outbound_amount |-> 1] }
LkIdle == [pc |-> "idle", wallet |-> "none", attempts |-> 0, res |-> "none"]
AnyWallet == "any"

\* (trigger, recipient_id, asset_id) combinations handed to enqueue_refresh_job
JobKinds ==
    { [trigger |-> "manual", recipient_id |-> NoRecipient, asset_id |-> NoAsset],
      [trigger |-> "invoice_created", recipient_id |-> "r1", asset_id |-> NoAsset] }

VARIABLES
    now,        \* wall clock, seconds
    jobs,       \* refresh_jobs table, in created_at order; job_id = index
    hist,       \* per job: the sequence of statuses it has taken (history)
    wpc,        \* per worker: position in dequeue / process_job
    wjob,       \* per worker: the job row it has selected or been handed
    watchers,   \* refresh_watchers table, keyed by <<xpub_van, recipient_id>>
    locks,      \* wallet_locks table: per wallet expires_at, or NoLock
    lk,         \* per process: position in a lock-protected refresh section
    liveGrant,  \* per wallet: processes whose acquire returned true since the
                \* row was last deleted (history)
    active_processes, \* supervisor: per wallet the tracked process, or NoPid
    procs,      \* worker processes ever spawned, by pid: wallet and running
    supTodo,    \* supervisor: wallets of the current poll not yet visited
    supStopped, \* supervisor: terminate_all_processes has run
    psbt_to_withdraw_map, \* routes.py: per wallet the request stored by withdraw_begin
    withdrawals, \* withdrawal_storage.py: withdrawal_id -> WithdrawalState
    tasks,      \* asyncio tasks running or scheduled to run process_withdrawal
    chans,      \* node: per channel "Absent", "Open" or "Closing"
    balance,    \* node: vanilla spendable balance, sats
    returned,   \* per idempotency key: withdrawal ids withdraw_end returned (history)
    repeated,   \* idempotency keys for which withdraw_end found a withdrawal (history)
    wt,         \* per process: position in watch_transfer, its watcher, refresh_count,
                \* the transfer its last pass obtained
    transfers,  \* node: per (wallet, recipient_id) the transfer, or NoTransfer
    failCalls,  \* per watcher key: the fail_transfers calls made (history)
    lastRecovery, \* the last recover_active_watchers call: rows read, enqueues
                \* that failed, return value, tables it started from (history)
    chanAttr,   \* node: per channel its asset_id and outbound amounts
    answered,   \* per withdrawal id: the wallets whose withdraw_end call
                \* was answered with that id (history)
    ww          \* wallet_worker.py main(): position in the loop, the shutdown
                \* flag of the process, has_work, last_work_time, the watcher
                \* rows still to serve, processed

jobVars == <<jobs, hist, wpc, wjob>>
lockVars == <<locks, lk, liveGrant>>
supVars == <<active_processes, procs, supTodo, supStopped>>
wdVars == <<psbt_to_withdraw_map, withdrawals, tasks, chans, balance,
            returned, repeated>>
vars == <<now, jobs, hist, wpc, wjob, watchers, locks, lk, liveGrant,
          active_processes, procs, supTodo, supStopped,
          psbt_to_withdraw_map, withdrawals, tasks, chans, balance,
          returned, repeated, wt, transfers, failCalls, lastRecovery, chanAttr, answered, ww>>
\* the variables a job action, a lock action, a supervisor action, a
\* withdrawal action leaves alone
nodeVars == <<transfers, failCalls>>
RestJ == <<lockVars, supVars, wdVars, wt, nodeVars, lastRecovery, chanAttr, answered, ww>>
RestL == <<supVars, wdVars, wt, nodeVars, lastRecovery, chanAttr, answered, ww>>
RestS == <<now, wpc, wjob, watchers, lockVars, wdVars, wt, nodeVars, lastRecovery, chanAttr, answered, ww>>
RestW == <<jobVars, watchers, lockVars, supVars, wt, nodeVars, lastRecovery, chanAttr, answered, ww>>
RestK == <<jobVars, lockVars, supVars, wdVars, lastRecovery, chanAttr, answered, ww>>
RestT == <<now, RestK, nodeVars>>

WatcherKeys == Wallets \X Recipients

Init ==
    /\ now = 0
    /\ jobs = << >>
    /\ hist = << >>
    /\ wpc = [w \in Workers |-> "idle"]
    /\ wjob = [w \in Workers |-> NoJob]
    /\ watchers = [k \in WatcherKeys |-> NoRow]
    /\ locks = [x \in Wallets |-> NoLock]
    /\ lk = [p \in Workers |-> LkIdle]
    /\ liveGrant = [x \in Wallets |-> {}]
    /\ active_processes = [x \in SupWallets |-> NoPid]
    /\ procs = << >>
    /\ supTodo = {}
    /\ supStopped = FALSE
    /\ psbt_to_withdraw_map = [x \in AllWdWallets |-> NoBody]
    /\ withdrawals = [id \in WdIds |-> NoWd]
    /\ tasks = [t \in TaskSlots |-> FreeTask]
    /\ chans = [c \in Channels |-> "Absent"]
    /\ balance = 0
    /\ returned = [b \in AllBodies |-> {}]
    /\ repeated = {}
    /\ wt = [p \in Workers |-> WtIdle]
    /\ transfers = [k \in WatcherKeys |-> NoTransfer]
    /\ failCalls = [k \in WatcherKeys |-> << >>]
    /\ lastRecovery = NoRecovery
    /\ chanAttr = [c \in Channels |-> BtcChannel]
    /\ answered = [id \in WdIds |-> {}]
    /\ ww = WwOff

\* ------------------------------------------------------------------------
\* src/queue/watchers.py
\* ------------------------------------------------------------------------
\* mutant: the conflict branch without refresh_count = 0
create_watcher_KeepCount(tbl, xpub_van, recipient_id, asset_id, expiration_seconds) ==
    [tbl EXCEPT ![<<xpub_van, recipient_id>>] =
        [status |-> "watching",
         refresh_count |-> IF @ = NoRow THEN 0 ELSE @.refresh_count,
         asset_id |-> asset_id,
         expires_at |-> now + expiration_seconds]]

\* INSERT ... ON CONFLICT (xpub_van, recipient_id) DO UPDATE SET status =
\* 'watching', expires_at, refresh_count = 0, asset_id
create_watcher(tbl, xpub_van, recipient_id, asset_id, expiration_seconds) ==
    [tbl EXCEPT ![<<xpub_van, recipient_id>>] =
        [status |-> "watching", refresh_count |-> 0, asset_id |-> asset_id,
         expires_at |-> now + expiration_seconds]]

\* SELECT * FROM refresh_watchers WHERE xpub_van = .. AND recipient_id = ..
get_watcher_status(tbl, xpub_van, recipient_id) == tbl[<<xpub_van, recipient_id>>]

\* ------------------------------------------------------------------------
\* src/queue/jobs.py
\* ------------------------------------------------------------------------
SetStatus(i, st) ==
    /\ jobs' = [jobs EXCEPT ![i].status = st, ![i].locked_by = NoWorker]
    /\ hist' = [hist EXCEPT ![i] = Append(@, st)]

\* enqueue_refresh_job: INSERT a new row, status 'pending', fresh job_id
enqueue_refresh_job(x, kind) ==
    /\ Len(jobs) < MaxJobs
    /\ jobs' = Append(jobs, [xpub_van |-> x, trigger |-> kind.trigger,
                             recipient_id |-> kind.recipient_id,
                             asset_id |-> kind.asset_id,
                             status |-> "pending", attempts |-> 0,
                             locked_by |-> NoWorker])
    /\ hist' = Append(hist, <<"pending">>)
    /\ UNCHANGED <<now, wpc, wjob, watchers, RestJ>>

\* mutant: the SELECT without the status = 'pending' condition
DequeueCandidates_AnyStatus(x) ==
    { i \in 1..Len(jobs) :
        /\ (x = AnyWallet \/ jobs[i].xpub_van = x)
        /\ jobs[i].locked_by = NoWorker }

\* mutant: the SELECT without FOR UPDATE SKIP LOCKED
DequeueCandidates_NoRowLock(x) ==
    { i \in 1..Len(jobs) :
        /\ jobs[i].status = "pending"
        /\ (x = AnyWallet \/ jobs[i].xpub_van = x) }

\* rows matched by SELECT ... WHERE [xpub_van = x AND] status = 'pending'
\* ... FOR UPDATE SKIP LOCKED: rows locked by another transaction are skipped
DequeueCandidates(x) ==
    { i \in 1..Len(jobs) :
        /\ jobs[i].status = "pending"
        /\ (x = AnyWallet \/ jobs[i].xpub_van = x)
        /\ jobs[i].locked_by = NoWorker }

\* ORDER BY created_at ASC LIMIT 1
Oldest(S) == CHOOSE i \in S : \A j \in S : i <= j

\* dequeue_job_for_wallet(x) / dequeue_refresh_job() (x = AnyWallet), the
\* SELECT: locks the oldest matching row, or returns None when there is none
DequeueSelect(w, x) ==
    /\ wpc[w] = "idle"
    /\ IF DequeueCandidates(x) = {}
       THEN UNCHANGED vars
       ELSE LET i == Oldest(DequeueCandidates(x)) IN
            /\ jobs' = [jobs EXCEPT ![i].locked_by = w]
            /\ wpc' = [wpc EXCEPT ![w] = "dq_locked"]
            /\ wjob' = [wjob EXCEPT ![w] = i]
            /\ UNCHANGED <<now, hist, watchers, RestJ>>

\* the UPDATE to 'processing' and the commit on leaving the transaction
\* block; the caller receives the row
DequeueCommit(w) ==
    /\ wpc[w] = "dq_locked"
    /\ SetStatus(wjob[w], "processing")
    /\ wpc' = [wpc EXCEPT ![w] = "holding"]
    /\ UNCHANGED <<now, wjob, watchers, RestJ>>

\* an exception inside the transaction block (UPDATE, timestamp
\* normalisation or commit): rollback, the caller receives None
DequeueAbort(w) ==
    /\ wpc[w] = "dq_locked"
    /\ jobs' = [jobs EXCEPT ![wjob[w]].locked_by = NoWorker]
    /\ wpc' = [wpc EXCEPT ![w] = "idle"]
    /\ wjob' = [wjob EXCEPT ![w] = NoJob]
    /\ UNCHANGED <<now, hist, watchers, RestJ>>

\* mark_job_completed: UPDATE ... SET status = 'completed' WHERE job_id = ..
mark_job_completed(i) == SetStatus(i, "completed")

\* mark_job_failed: 'failed' if attempts >= MAX_RETRIES else 'pending'
mark_job_failed(i, attempts) ==
    /\ jobs' = [jobs EXCEPT ![i].status =
                      IF attempts >= MAX_RETRIES THEN "failed" ELSE "pending",
                   ![i].attempts = attempts,
                   ![i].locked_by = NoWorker]
    /\ hist' = [hist EXCEPT ![i] =
                   Append(@, IF attempts >= MAX_RETRIES THEN "failed" ELSE "pending")]

\* ------------------------------------------------------------------------
\* workers/processors/job_processor.py
\* ------------------------------------------------------------------------
IsInvoiceCase(job) ==
    /\ job.trigger = "invoice_created"
    /\ job.recipient_id # NoRecipient
    /\ job.asset_id = NoAsset

Release(w) ==
    /\ wpc' = [wpc EXCEPT ![w] = "idle"]
    /\ wjob' = [wjob EXCEPT ![w] = NoJob]

\* process_job, invoice_created special case: get_watcher_status (None when
\* the row is absent or the query fails), create_watcher unless a row was
\* found, mark_job_completed; create_watcher raising leads to mark_job_failed
process_job_invoice(w, lookup_ok, create_ok) ==
    /\ wpc[w] = "holding"
    /\ LET i == wjob[w]
           job == jobs[i]
           existing == IF lookup_ok
                       THEN get_watcher_status(watchers, job.xpub_van, job.recipient_id)
                       ELSE NoRow
       IN
       /\ IsInvoiceCase(job)
       /\ IF existing # NoRow
          THEN /\ mark_job_completed(i)
               /\ UNCHANGED watchers
          ELSE IF create_ok
               THEN /\ watchers' = create_watcher(watchers, job.xpub_van,
                                        job.recipient_id, NoAsset, INVOICE_TTL)
                    /\ mark_job_completed(i)
               ELSE /\ mark_job_failed(i, job.attempts + 1)
                    /\ UNCHANGED watchers
    /\ Release(w)
    /\ UNCHANGED <<now, RestJ>>

\* process_job, every other job: process_wallet_unified returns normally on
\* every path (lock busy, refresh succeeded, retries exhausted, shutdown),
\* then mark_job_completed.  The lock and refresh steps of
\* process_wallet_unified are the pu_* actions of SpecLocks.
process_job_unified(w) ==
    /\ wpc[w] = "holding"
    /\ ~IsInvoiceCase(jobs[wjob[w]])
    /\ mark_job_completed(wjob[w])
    /\ Release(w)
    /\ UNCHANGED <<now, watchers, RestJ>>

\* mark_job_completed / mark_job_failed swallow a database error: the row
\* keeps its status and process_job returns
process_job_mark_error(w) ==
    /\ wpc[w] = "holding"
    /\ Release(w)
    /\ UNCHANGED <<now, jobs, hist, watchers, RestJ>>

\* the worker process is killed: an open transaction is rolled back, a row
\* already handed out stays as it is
WorkerKilled(w) ==
    /\ wpc[w] # "idle"
    /\ jobs' = IF wpc[w] = "dq_locked"
               THEN [jobs EXCEPT ![wjob[w]].locked_by = NoWorker]
               ELSE jobs
    /\ Release(w)
    /\ UNCHANGED <<now, hist, watchers, RestJ>>

NextJobs ==
    \/ \E x \in Wallets, k \in JobKinds : enqueue_refresh_job(x, k)
    \/ \E w \in Workers, x \in Wallets \cup {AnyWallet} : DequeueSelect(w, x)
    \/ \E w \in Workers : DequeueCommit(w)
    \/ \E w \in Workers : DequeueAbort(w)
    \/ \E w \in Workers, l \in BOOLEAN, c \in BOOLEAN : process_job_invoice(w, l, c)
    \/ \E w \in Workers : process_job_unified(w)
    \/ \E w \in Workers : process_job_mark_error(w)
    \/ \E w \in Workers : WorkerKilled(w)

SpecJobs == Init /\ [][NextJobs]_vars

\* ------------------------------------------------------------------------
\* Claims on the job queue
\* ------------------------------------------------------------------------
IsPrefix(s, t) == Len(s) <= Len(t) /\ \A k \in 1..Len(s) : s[k] = t[k]

\* h[1..n] is pending, processing, pending, processing, ...
Alternating(h, n) ==
    \A k \in 1..n : h[k] = IF k % 2 = 1 THEN "pending" ELSE "processing"

\* C1 as stated: every job's status sequence is a prefix of
\* <<pending, processing, completed>> or of pending, processing, pending,
\* ..., failed (a re-queued job can only end failed).
C1_StatedSequences ==
    \A i \in 1..Len(hist) :
        LET h == hist[i] IN
        \/ IsPrefix(h, <<"pending", "processing", "completed">>)
        \/ Alternating(h, Len(h))
        \/ Len(h) >= 3 /\ h[Len(h)] = "failed" /\ Alternating(h, Len(h) - 1)

\* C1 amended: every job's status sequence alternates pending, processing,
\* pending, processing, ... and may end, right after a 'processing', with
\* one 'completed' or 'failed' after which nothing follows; a re-queued job
\* can end completed as well as failed.  The table row shows the last status
\* of the sequence.
C1_JobMonotonicity ==
    \A i \in 1..Len(hist) :
        LET h == hist[i] IN
        /\ jobs[i].status = h[Len(h)]
        /\ \/ Alternating(h, Len(h))
           \/ /\ Len(h) >= 3
              /\ h[Len(h)] \in {"completed", "failed"}
              /\ h[Len(h) - 1] = "processing"
              /\ Alternating(h, Len(h) - 1)

\* a job that was re-queued after a failed attempt and then completed, and
\* a job that exhausted its retries
C1_Witness ==
    /\ \E i \in 1..Len(hist) : Len(hist[i]) = 5 /\ hist[i][5] = "completed"
    /\ \E i \in 1..Len(hist) : hist[i][Len(hist[i])] = "failed"

\* C2: no two workers hold the same job row, a worker holds a row only in
\* status 'processing', and a row goes from pending to processing only in
\* the step that hands it to a worker (a dequeue that aborts or finds
\* nothing changes no status).
C2_Step ==
    /\ \A w1, w2 \in Workers :
          (w1 # w2 /\ wpc'[w1] = "holding" /\ wpc'[w2] = "holding")
              => wjob'[w1] # wjob'[w2]
    /\ \A w \in Workers :
          wpc'[w] = "holding" => jobs'[wjob'[w]].status = "processing"
    /\ \A i \in 1..Len(jobs) :
          (jobs[i].status # "processing" /\ jobs'[i].status = "processing")
              => \E w \in Workers :
                    wpc[w] = "dq_locked" /\ wpc'[w] = "holding" /\ wjob'[w] = i
    /\ \A w \in Workers :
          (wpc[w] = "dq_locked" /\ wpc'[w] = "idle")
              => \A i \in 1..Len(jobs) : jobs'[i].status = jobs[i].status

C2_ExclusiveDequeue == [][C2_Step]_vars

\* two dequeues in flight at once on jobs of one wallet, and two workers
\* holding a job each
C2_Witness ==
    \/ /\ wpc["p1"] = "dq_locked" /\ wpc["p2"] = "dq_locked"
       /\ jobs[wjob["p1"]].xpub_van = jobs[wjob["p2"]].xpub_van
    \/ /\ wpc["p1"] = "holding" /\ wpc["p2"] = "holding"
       /\ jobs[wjob["p1"]].xpub_van = jobs[wjob["p2"]].xpub_van

\* ------------------------------------------------------------------------
\* src/queue/locks.py
\* ------------------------------------------------------------------------
Tick ==
    /\ now < MaxTime
    /\ now' = now + TickSeconds
    /\ UNCHANGED <<jobVars, watchers, RestJ>>

\* stored routine cleanup_expired_locks(): DELETE FROM wallet_locks WHERE
\* expires_at < now()
cleanup_expired_locks(tbl) ==
    [x \in Wallets |-> IF tbl[x] # NoLock /\ tbl[x] < now THEN NoLock ELSE tbl[x]]

Expired(x) == locks[x] # NoLock /\ locks[x] < now

\* mutant: the INSERT overwrites an existing row (no ON CONFLICT DO NOTHING)
LockInsertable_Overwrite(tbl, x) == TRUE

\* INSERT ... ON CONFLICT (xpub_van) DO NOTHING RETURNING xpub_van: a row is
\* inserted, and returned, only when the wallet has none
LockInsertable(tbl, x) == tbl[x] = NoLock

\* acquire_wallet_lock(x, ttl), first statement: SELECT cleanup_expired_locks().
\* section is "wr" (WalletRefresher.refresh) or "pu" (process_wallet_unified).
AcquireCleanup(p, x, section) ==
    /\ lk[p].pc = "idle"
    /\ locks' = cleanup_expired_locks(locks)
    /\ liveGrant' = [y \in Wallets |-> IF Expired(y) THEN {} ELSE liveGrant[y]]
    /\ lk' = [lk EXCEPT ![p] = [pc |-> section \o "_insert", wallet |-> x,
                                attempts |-> 0, res |-> "none"]]
    /\ UNCHANGED <<now, jobVars, watchers, RestL>>

\* acquire_wallet_lock, the INSERT and the commit: true iff the row was
\* inserted.  On false both callers return without refreshing.
AcquireInsert(p) ==
    /\ lk[p].pc \in {"wr_insert", "pu_insert"}
    /\ LET x == lk[p].wallet
           section == IF lk[p].pc = "wr_insert" THEN "wr" ELSE "pu" IN
       IF LockInsertable(locks, x)
       THEN /\ locks' = [locks EXCEPT ![x] = now + WALLET_LOCK_TTL]
            /\ liveGrant' = [liveGrant EXCEPT ![x] = @ \cup {p}]
            /\ lk' = [lk EXCEPT ![p].pc = section \o "_refresh", ![p].res = "true"]
       ELSE /\ lk' = [lk EXCEPT ![p].pc = "idle", ![p].res = "false"]
            /\ UNCHANGED <<locks, liveGrant>>
    /\ UNCHANGED <<now, jobVars, watchers, RestL>>

\* acquire_wallet_lock: a database error is logged and false is returned
AcquireError(p) ==
    /\ lk[p].pc \in {"wr_insert", "pu_insert"}
    /\ lk' = [lk EXCEPT ![p].pc = "idle", ![p].res = "false"]
    /\ UNCHANGED <<now, jobVars, watchers, locks, liveGrant, RestL>>

\* release_wallet_lock(x): DELETE FROM wallet_locks WHERE xpub_van = x; a
\* database error is logged and swallowed (ok = FALSE)
ReleaseLock(p, ok) ==
    /\ lk[p].pc \in {"wr_release", "pu_release"}
    /\ IF ok
       THEN /\ locks' = [locks EXCEPT ![lk[p].wallet] = NoLock]
            /\ liveGrant' = [liveGrant EXCEPT ![lk[p].wallet] = {}]
       ELSE UNCHANGED <<locks, liveGrant>>
    /\ lk' = [lk EXCEPT ![p].pc = "idle"]
    /\ UNCHANGED <<now, jobVars, watchers, RestL>>

\* ------------------------------------------------------------------------
\* WalletRefresher.refresh (transfer_watcher.py) and the refresh loop of
\* process_wallet_unified (unified_handler.py)
\* ------------------------------------------------------------------------
\* WalletRefresher.refresh: refresh_wallet returns or raises; either way the
\* finally block releases the lock next
WrRefreshReturns(p) ==
    /\ lk[p].pc = "wr_refresh"
    /\ lk' = [lk EXCEPT ![p].pc = "wr_release"]
    /\ UNCHANGED <<now, jobVars, watchers, locks, liveGrant, RestL>>

\* process_wallet_unified: refresh_wallet (and the listing that follows)
\* succeeded: return through the finally block
PuRefreshSucceeds(p) ==
    /\ lk[p].pc = "pu_refresh"
    /\ lk' = [lk EXCEPT ![p].pc = "pu_release"]
    /\ UNCHANGED <<now, jobVars, watchers, locks, liveGrant, RestL>>

\* process_wallet_unified: the attempt raised: attempts += 1, break when
\* attempts >= max_retries, else time.sleep(RETRY_DELAY_BASE * 2^(attempts-1))
PuRefreshFails(p) ==
    /\ lk[p].pc = "pu_refresh"
    /\ lk' = [lk EXCEPT ![p].attempts = @ + 1,
                        ![p].pc = IF lk[p].attempts + 1 >= MAX_RETRIES
                                  THEN "pu_release" ELSE "pu_sleep"]
    /\ UNCHANGED <<now, jobVars, watchers, locks, liveGrant, RestL>>

\* the back-off sleep ends and the next attempt is issued
PuRetry(p) ==
    /\ lk[p].pc = "pu_sleep"
    /\ lk' = [lk EXCEPT ![p].pc = "pu_refresh"]
    /\ UNCHANGED <<now, jobVars, watchers, locks, liveGrant, RestL>>

\* the process is killed inside the section: the finally block does not run
\* and its lock row stays until it expires
LockHolderKilled(p) ==
    /\ lk[p].pc # "idle"
    /\ lk' = [lk EXCEPT ![p].pc = "idle"]
    /\ UNCHANGED <<now, jobVars, watchers, locks, liveGrant, RestL>>

NextLocks ==
    \/ Tick
    \/ \E p \in Workers, x \in Wallets, s \in {"wr", "pu"} : AcquireCleanup(p, x, s)
    \/ \E p \in Workers : AcquireInsert(p)
    \/ \E p \in Workers : AcquireError(p)
    \/ \E p \in Workers, ok \in BOOLEAN : ReleaseLock(p, ok)
    \/ \E p \in Workers : WrRefreshReturns(p)
    \/ \E p \in Workers : PuRefreshSucceeds(p)
    \/ \E p \in Workers : PuRefreshFails(p)
    \/ \E p \in Workers : PuRetry(p)
    \/ \E p \in Workers : LockHolderKilled(p)

SpecLocks == Init /\ [][NextLocks]_vars

\* ------------------------------------------------------------------------
\* Claims on the wallet lock
\* ------------------------------------------------------------------------
\* C3: of the callers of acquire_wallet_lock(x) at most one has received true
\* since the lock row of x was last removed by release_wallet_lock(x) or by
\* the clean-up of an expired row; a second caller receives true only after
\* such a removal.
C3_LockExclusion ==
    \A x \in Wallets :
        /\ Cardinality(liveGrant[x]) <= 1
        /\ liveGrant[x] # {} <=> locks[x] # NoLock

\* one caller was refused while the other's row stood, and a caller was
\* granted the lock after the other's row had expired and been cleaned up
C3_Witness ==
    \/ /\ lk["p1"].res = "true" /\ lk["p1"].pc = "wr_refresh"
       /\ lk["p2"].res = "false" /\ lk["p2"].wallet = lk["p1"].wallet
    \/ /\ lk["p1"].pc = "pu_refresh" /\ lk["p2"].pc = "wr_refresh"
       /\ lk["p2"].wallet = lk["p1"].wallet
       /\ liveGrant[lk["p1"].wallet] = {"p2"}

InFlight(p) == lk[p].pc \in {"wr_refresh", "pu_refresh"}

\* C4 as stated: no two refresh_wallet calls for one wallet are in flight at
\* the same time.
C4_RefreshesTotallyOrdered ==
    \A p, q \in Workers :
        (p # q /\ InFlight(p) /\ InFlight(q)) => lk[p].wallet # lk[q].wallet

\* ------------------------------------------------------------------------
\* workers/refresh_worker.py: the supervisor
\* ------------------------------------------------------------------------
\* get_active_watchers: status = 'watching' AND expires_at > NOW()
ActiveWatcher(row) == row.status = "watching" /\ row.expires_at > now

\* the two SELECT DISTINCT xpub_van queries of the poll
WalletsNeedingProcessing ==
    { jobs[i].xpub_van : i \in { k \in 1..Len(jobs) : jobs[k].status = "pending" } }
    \cup { k[1] : k \in { kk \in WatcherKeys : ActiveWatcher(watchers[kk]) } }

\* mutant: a tracked process is never seen as running
IsRunning_NeverAlive(pid) == FALSE

\* process.poll() is None
IsRunning(pid) == pid # NoPid /\ procs[pid].running

\* mutant: the count of running processes taken before any was spawned
RunningCount_Stale(ap) == 0

\* mutant: the count of the entries of active_processes, dead ones included
RunningCount_Tracked(ap) == Cardinality({ x \in SupWallets : ap[x] # NoPid })

\* len([p for p in active_processes.values() if p.poll() is None])
RunningCount(ap) == Cardinality({ x \in SupWallets : IsRunning(ap[x]) })

\* cleanup_dead_processes: drop the entries whose process has terminated
cleanup_dead_processes(ap) ==
    [x \in SupWallets |-> IF ap[x] # NoPid /\ ~IsRunning(ap[x]) THEN NoPid ELSE ap[x]]

\* main loop, head of one iteration: the periodic cleanup_dead_processes
\* (every cleanup_interval) and the two queries; a failing query skips the
\* iteration
SupervisorPoll(doCleanup, queryOk) ==
    /\ ~supStopped
    /\ supTodo = {}
    /\ active_processes' = IF doCleanup THEN cleanup_dead_processes(active_processes)
                           ELSE active_processes
    /\ supTodo' = IF queryOk THEN WalletsNeedingProcessing ELSE {}
    /\ UNCHANGED <<procs, supStopped, jobs, hist, RestS>>

\* main loop, body of "for xpub_van in wallets_needing_processing"; spawnOk
\* is the outcome of subprocess.Popen in spawn_wallet_worker
SupervisorVisit(x, spawnOk) ==
    /\ ~supStopped
    /\ x \in supTodo
    /\ supTodo' = supTodo \ {x}
    /\ IF active_processes[x] # NoPid /\ IsRunning(active_processes[x])
       THEN UNCHANGED <<active_processes, procs>>
       ELSE LET popped == [active_processes EXCEPT ![x] = NoPid] IN
            IF RunningCount(popped) >= MAX_WALLET_PROCESSES
               \/ ~spawnOk \/ Len(procs) >= MaxSpawns
            THEN /\ active_processes' = popped
                 /\ UNCHANGED procs
            ELSE /\ procs' = Append(procs, [wallet |-> x, running |-> TRUE])
                 /\ active_processes' = [popped EXCEPT ![x] = Len(procs) + 1]
    /\ UNCHANGED <<supStopped, jobs, hist, RestS>>

\* a worker process terminates (idle timeout, shutdown, crash or kill)
WorkerExits(pid) ==
    /\ pid \in 1..Len(procs)
    /\ procs[pid].running
    /\ procs' = [procs EXCEPT ![pid].running = FALSE]
    /\ UNCHANGED <<active_processes, supTodo, supStopped, jobs, hist, RestS>>

\* a running wallet worker takes the oldest pending job of its wallet
\* through dequeue_job_for_wallet and process_job to 'completed'
WorkerRunsJob(pid) ==
    /\ pid \in 1..Len(procs)
    /\ procs[pid].running
    /\ DequeueCandidates(procs[pid].wallet) # {}
    /\ LET i == Oldest(DequeueCandidates(procs[pid].wallet)) IN
       /\ jobs' = [jobs EXCEPT ![i].status = "completed"]
       /\ hist' = [hist EXCEPT ![i] = @ \o <<"processing", "completed">>]
    /\ UNCHANGED <<supVars, RestS>>

\* terminate_all_processes, on leaving the main loop: terminate, wait, kill
\* the stragglers, clear the dictionary
terminate_all_processes ==
    /\ ~supStopped
    /\ supStopped' = TRUE
    /\ supTodo' = {}
    /\ procs' = [pid \in 1..Len(procs) |->
                    IF \E x \in SupWallets : active_processes[x] = pid
                    THEN [procs[pid] EXCEPT !.running = FALSE] ELSE procs[pid]]
    /\ active_processes' = [x \in SupWallets |-> NoPid]
    /\ UNCHANGED <<jobs, hist, RestS>>

NextSup ==
    \/ \E x \in SupWallets, k \in JobKinds : enqueue_refresh_job(x, k)
    \/ \E c \in BOOLEAN, q \in BOOLEAN : SupervisorPoll(c, q)
    \/ \E x \in SupWallets, ok \in BOOLEAN : SupervisorVisit(x, ok)
    \/ \E pid \in 1..MaxSpawns : WorkerExits(pid)
    \/ \E pid \in 1..MaxSpawns : WorkerRunsJob(pid)
    \/ terminate_all_processes

SpecSup == Init /\ [][NextSup]_vars

\* ------------------------------------------------------------------------
\* Claims on the supervisor
\* ------------------------------------------------------------------------
LiveWorkers(x) == { pid \in 1..Len(procs) : procs[pid].running /\ procs[pid].wallet = x }

\* C5: at every instant every wallet has at most one live wallet-worker
\* process, and a wallet whose tracked process is running is never given
\* another one.
C5_OneWorkerPerWallet ==
    \A x \in SupWallets : Cardinality(LiveWorkers(x)) <= 1

\* a wallet whose first worker exited was given a second, live one
C5_Witness ==
    \E a, b \in 1..Len(procs) :
        /\ a < b
        /\ procs[a].wallet = procs[b].wallet
        /\ ~procs[a].running
        /\ procs[b].running
        /\ active_processes[procs[b].wallet] = b

\* ------------------------------------------------------------------------
\* src/bitcoinl1/withdrawal_storage.py, routes.py: withdraw_begin/withdraw_end
\* ------------------------------------------------------------------------
Range(f) == { f[i] : i \in DOMAIN f }
Max(a, b) == IF a >= b THEN a ELSE b

\* "withdraw_" + sha256(json.dumps(withdraw_req.model_dump(), sort_keys=True)):
\* a function of the request body alone
idempotency_key(body) == body

\* get_withdrawal_by_idempotency_key: the ids of the stored records with the key
get_withdrawal_by_idempotency_key(key) ==
    { id \in WdIds : withdrawals[id] # NoWd /\ withdrawals[id].idempotency_key = key }

\* update_withdrawal_status: status, updated_at, and error_code when given;
\* attempt_count is incremented and retryable is always overwritten.
\* trail is the history of the statuses the record has had.
update_withdrawal_status(rec, status, error_code, retryable) ==
    [rec EXCEPT !.status = status,
                !.updated_at = now,
                !.error_code = IF error_code # "" THEN error_code ELSE @,
                !.attempt_count = @ + 1,
                !.retryable = retryable,
                !.trail = Append(@, status)]

\* mutant: a failure puts the withdrawal back to REQUESTED
Fail_Requeue(rec, error_code) == update_withdrawal_status(rec, "REQUESTED", error_code, TRUE)

\* update_withdrawal_status(id, FAILED, error_code=.., retryable=True)
Fail(rec, error_code) == update_withdrawal_status(rec, "FAILED", error_code, TRUE)

\* str(uuid.uuid4()): an id never used before
FreshIds == { id \in WdIds : withdrawals[id] = NoWd /\ \A b \in AllBodies : id \notin returned[b] }
FreeSlots == { t \in TaskSlots : tasks[t].pc = "free" }
TasksOf(id) == { t \in TaskSlots : tasks[t].pc # "free" /\ tasks[t].wd = id }
NewTask(id, pc) == [FreeTask EXCEPT !.pc = pc, !.wd = id]

\* withdraw_begin: stores the request for the wallet
withdraw_begin(x, body) ==
    /\ psbt_to_withdraw_map' = [psbt_to_withdraw_map EXCEPT ![x] = body]
    /\ UNCHANGED <<now, withdrawals, tasks, chans, balance, returned,
                   repeated, RestW>>

\* mutant: withdraw_end without the idempotency lookup
ExistingFor_NoLookup(key) == {}

\* withdraw_end: existing = get_withdrawal_by_idempotency_key(idempotency_key)
ExistingFor(key) == get_withdrawal_by_idempotency_key(key)

\* withdraw_end (no await between the lookup and save_withdrawal): return the
\* existing withdrawal of the key, or save a new REQUESTED record and create
\* the process_withdrawal task
withdraw_end(x) ==
    /\ psbt_to_withdraw_map[x] # NoBody
    /\ LET body == psbt_to_withdraw_map[x]
           key == idempotency_key(body)
           existing == ExistingFor(key) IN
       /\ IF existing # {}
          THEN /\ repeated' = repeated \cup {key}
               /\ returned' = [returned EXCEPT ![key] = @ \cup {CHOOSE id \in existing : TRUE}]
               /\ answered' = [answered EXCEPT ![CHOOSE id \in existing : TRUE] = @ \cup {x}]
               /\ UNCHANGED <<withdrawals, tasks>>
          ELSE /\ FreshIds # {}
               /\ FreeSlots # {}
               /\ withdrawals' = [withdrawals EXCEPT ![CHOOSE id \in FreshIds : TRUE] =
                      [idempotency_key |-> key,
                       address_or_rgbinvoice |-> body.address,
                       amount_sats_requested |->
                           IF body.address = "rgb:inv" THEN NoneInt ELSE body.amount_sats,
                       asset |-> body.asset,
                       deduct_fee_from_amount |-> body.deduct_fee,
                       status |-> "REQUESTED",
                       channel_ids_to_close |-> << >>,
                       close_txids |-> << >>,
                       baseline_balance_sats |-> NoneInt,
                       balance_wait_started_at |-> NoneInt,
                       sweep_txid |-> "",
                       amount_sats_sent |-> NoneInt,
                       fee_sats |-> NoneInt,
                       error_code |-> "",
                       retryable |-> FALSE,
                       updated_at |-> now,
                       attempt_count |-> 0,
                       trail |-> <<"REQUESTED">>,
                       started_at |-> ""]]
               /\ tasks' = [tasks EXCEPT ![CHOOSE t \in FreeSlots : TRUE] =
                               NewTask(CHOOSE id \in FreshIds : TRUE, "start")]
               /\ returned' = [returned EXCEPT ![key] = @ \cup {CHOOSE id \in FreshIds : TRUE}]
               /\ answered' = [answered EXCEPT ![CHOOSE id \in FreshIds : TRUE] = @ \cup {x}]
               /\ UNCHANGED repeated
    /\ UNCHANGED <<now, psbt_to_withdraw_map, chans, balance, jobVars, watchers,
                   lockVars, supVars, wt, nodeVars, lastRecovery, chanAttr, ww>>

\* ------------------------------------------------------------------------
\* src/bitcoinl1/withdrawal_orchestrator.py: process_withdrawal
\* ------------------------------------------------------------------------
\* the chain of "if withdrawal.status == ..." blocks, in source order
BranchStatus ==
    <<"REQUESTED", "CLOSING_CHANNELS", "WAITING_CLOSE_CONFIRMATIONS",
      "WAITING_BALANCE_UPDATE", "SWEEPING_OUTPUTS", "BROADCASTED">>

\* mutant: a finished withdrawal enters the sweep block again
StatusMatches_ResumeSweep(rec, k) ==
    \/ rec.status = BranchStatus[k]
    \/ k = 5 /\ rec.status \in {"CONFIRMED", "FAILED"}

StatusMatches(rec, k) == rec.status = BranchStatus[k]

\* mutant: the wait is measured from the epoch
WaitStartedAt_FromZero(rec) == 0

\* balance_wait_started_at or updated_at
WaitStartedAt(rec) ==
    IF rec.balance_wait_started_at # NoneInt /\ rec.balance_wait_started_at # 0
    THEN rec.balance_wait_started_at ELSE rec.updated_at

\* The synchronous code from the k-th status block on, up to the next await
\* or return: the record as it leaves it and the await reached
RECURSIVE Dispatch(_, _)
Dispatch(rec, k) ==
    IF k > 6 THEN [rec |-> rec, pc |-> "free"]
    ELSE IF ~StatusMatches(rec, k) THEN Dispatch(rec, k + 1)
    ELSE CASE k = 1 -> [rec |-> rec, pc |-> "req_bal"]
           [] k = 2 -> IF rec.channel_ids_to_close = << >>
                       THEN Dispatch(update_withdrawal_status(
                                [rec EXCEPT !.close_txids = << >>],
                                "WAITING_CLOSE_CONFIRMATIONS", "", FALSE), 3)
                       ELSE [rec |-> rec, pc |-> "close_list"]
           [] k = 3 -> [rec |-> rec, pc |-> "wcc_list"]
           [] k = 4 -> IF now - WaitStartedAt(rec) >= BALANCE_TIMEOUT
                       THEN [rec |-> Fail(rec, "BALANCE_UPDATE_TIMEOUT"), pc |-> "free"]
                       ELSE [rec |-> rec, pc |-> "wbu_refresh"]
           [] k = 5 -> [rec |-> rec, pc |-> "sweep_bal"]
           [] k = 6 -> [rec |-> update_withdrawal_status(rec, "CONFIRMED", "", FALSE),
                        pc |-> "free"]

\* the task continues with record rec at the k-th status block
Continue(t, rec, k) ==
    LET d == Dispatch(rec, k) IN
    /\ withdrawals' = [withdrawals EXCEPT ![tasks[t].wd] = d.rec]
    /\ tasks' = [tasks EXCEPT ![t] =
                    IF d.pc = "free" THEN FreeTask
                    ELSE [@ EXCEPT !.pc = d.pc, !.idx = 1, !.ctx = << >>]]

\* the task stores rec and returns
Finish(t, rec) ==
    /\ withdrawals' = [withdrawals EXCEPT ![tasks[t].wd] = rec]
    /\ tasks' = [tasks EXCEPT ![t] = FreeTask]

Rec(t) == withdrawals[tasks[t].wd]

Listed(c) == chans[c] # "Absent"

\* find_channels_to_close: the listed channels without asset and with
\* outbound_balance_msat > 0 when asset_id is None, else the listed channels
\* of that asset with asset_outbound_amount > 0
find_channels_to_close(asset_id) ==
    LET Selected(c) ==
            /\ Listed(c)
            /\ IF asset_id = NoAsset /\ chanAttr[c].asset_id = NoAsset
               THEN chanAttr[c].outbound_balance_msat > 0
               ELSE /\ asset_id # NoAsset
                    /\ chanAttr[c].asset_id = asset_id
                    /\ chanAttr[c].asset_outbound_amount > 0
    IN SelectSeq(ChannelOrder, Selected)

\* process_withdrawal starts: get_withdrawal, then the status blocks
TaskStart(t) ==
    /\ tasks[t].pc = "start"
    /\ IF withdrawals[tasks[t].wd] = NoWd
       THEN /\ tasks' = [tasks EXCEPT ![t] = FreeTask]
            /\ UNCHANGED withdrawals
       ELSE Continue(t, [Rec(t) EXCEPT !.started_at = Rec(t).status], 1)
    /\ UNCHANGED <<now, psbt_to_withdraw_map, chans, balance, returned,
                   repeated, RestW>>

\* REQUESTED: get_btc_balance answers; the baseline is stored
ReqBalance(t, ok) ==
    /\ tasks[t].pc = "req_bal"
    /\ IF ok
       THEN /\ withdrawals' = [withdrawals EXCEPT ![tasks[t].wd].baseline_balance_sats = balance]
            /\ tasks' = [tasks EXCEPT ![t].pc = "req_chan"]
       ELSE Finish(t, Fail(Rec(t), "PROCESSING_ERROR"))
    /\ UNCHANGED <<now, psbt_to_withdraw_map, chans, balance, returned,
                   repeated, RestW>>

\* REQUESTED: list_channels of find_channels_to_close(asset_id=None) answers;
\* no channel: SWEEPING_OUTPUTS, else the ids are stored and the status is
\* CLOSING_CHANNELS
ReqChannels(t, ok) ==
    /\ tasks[t].pc = "req_chan"
    /\ IF ok
       THEN IF find_channels_to_close(NoAsset) = << >>
            THEN Continue(t, update_withdrawal_status(Rec(t), "SWEEPING_OUTPUTS", "", FALSE), 2)
            ELSE Continue(t, update_withdrawal_status(
                        [Rec(t) EXCEPT !.channel_ids_to_close = find_channels_to_close(NoAsset)],
                        "CLOSING_CHANNELS", "", FALSE), 2)
       ELSE Finish(t, Fail(Rec(t), "PROCESSING_ERROR"))
    /\ UNCHANGED <<now, psbt_to_withdraw_map, chans, balance, returned,
                   repeated, RestW>>

\* the closing loop moves to the next channel id, or ends: close_txids are
\* stored and the status is WAITING_CLOSE_CONFIRMATIONS
NextChannel(t, rec, ctx) ==
    IF tasks[t].idx < Len(rec.channel_ids_to_close)
    THEN /\ withdrawals' = [withdrawals EXCEPT ![tasks[t].wd] = rec]
         /\ tasks' = [tasks EXCEPT ![t].pc = "close_list", ![t].idx = @ + 1, ![t].ctx = ctx]
    ELSE Continue(t, update_withdrawal_status([rec EXCEPT !.close_txids = ctx],
                        "WAITING_CLOSE_CONFIRMATIONS", "", FALSE), 3)

CurrentChannel(t) == Rec(t).channel_ids_to_close[tasks[t].idx]

\* CLOSING_CHANNELS: list_channels answers; a channel that is not listed has
\* no peer_pubkey and is skipped; otherwise close_channel is called
CloseList(t, ok) ==
    /\ tasks[t].pc = "close_list"
    /\ IF ~ok
       THEN Finish(t, Fail(Rec(t), "CHANNEL_CLOSE_FAILED"))
       ELSE IF chans[CurrentChannel(t)] = "Absent"
            THEN NextChannel(t, Rec(t), tasks[t].ctx)
            ELSE /\ tasks' = [tasks EXCEPT ![t].pc = "close_call"]
                 /\ UNCHANGED withdrawals
    /\ UNCHANGED <<now, psbt_to_withdraw_map, chans, balance, returned,
                   repeated, RestW>>

\* CLOSING_CHANNELS: close_channel answers; the node accepts the close of an
\* open channel and rejects any other
CloseCall(t, ok) ==
    /\ tasks[t].pc = "close_call"
    /\ IF ok /\ chans[CurrentChannel(t)] = "Open"
       THEN /\ chans' = [chans EXCEPT ![CurrentChannel(t)] = "Closing"]
            /\ tasks' = [tasks EXCEPT ![t].pc = "close_refresh"]
            /\ UNCHANGED withdrawals
       ELSE /\ Finish(t, Fail(Rec(t), "CHANNEL_CLOSE_FAILED"))
            /\ UNCHANGED chans
    /\ UNCHANGED <<now, psbt_to_withdraw_map, balance, returned,
                   repeated, RestW>>

\* CLOSING_CHANNELS: refresh_transfers answers; the channel id is recorded
CloseRefresh(t, ok) ==
    /\ tasks[t].pc = "close_refresh"
    /\ IF ok
       THEN NextChannel(t, Rec(t), Append(tasks[t].ctx, CurrentChannel(t)))
       ELSE Finish(t, Fail(Rec(t), "CHANNEL_CLOSE_FAILED"))
    /\ UNCHANGED <<now, psbt_to_withdraw_map, chans, balance, returned,
                   repeated, RestW>>

\* all_closed: every stored channel id is unlisted or listed Closing/Closed
AllClosed(rec) ==
    \A c \in Range(rec.channel_ids_to_close) : chans[c] \in {"Absent", "Closing"}

\* WAITING_CLOSE_CONFIRMATIONS: list_channels answers; all closed: the wait
\* start is stored and the status is WAITING_BALANCE_UPDATE; else return
WccList(t, ok) ==
    /\ tasks[t].pc = "wcc_list"
    /\ IF ~ok
       THEN Finish(t, Fail(Rec(t), "PROCESSING_ERROR"))
       ELSE IF AllClosed(Rec(t))
            THEN Continue(t, update_withdrawal_status(
                        [Rec(t) EXCEPT !.balance_wait_started_at = now],
                        "WAITING_BALANCE_UPDATE", "", FALSE), 4)
            ELSE Finish(t, Rec(t))
    /\ UNCHANGED <<now, psbt_to_withdraw_map, chans, balance, returned,
                   repeated, RestW>>

\* WAITING_BALANCE_UPDATE: refresh_transfers answers
WbuRefresh(t, ok) ==
    /\ tasks[t].pc = "wbu_refresh"
    /\ IF ok
       THEN /\ tasks' = [tasks EXCEPT ![t].pc = "wbu_bal"]
            /\ UNCHANGED withdrawals
       ELSE Finish(t, Fail(Rec(t), "PROCESSING_ERROR"))
    /\ UNCHANGED <<now, psbt_to_withdraw_map, chans, balance, returned,
                   repeated, RestW>>

\* WAITING_BALANCE_UPDATE: get_btc_balance answers; above the baseline:
\* SWEEPING_OUTPUTS; else create_task(_retry_balance_check(id, 40)), return
WbuBalance(t, ok) ==
    /\ tasks[t].pc = "wbu_bal"
    /\ IF ~ok
       THEN Finish(t, Fail(Rec(t), "PROCESSING_ERROR"))
       ELSE IF balance > Max(Rec(t).baseline_balance_sats, 0)
            THEN Continue(t, update_withdrawal_status(Rec(t), "SWEEPING_OUTPUTS", "", FALSE), 5)
            ELSE /\ tasks' = [tasks EXCEPT ![t] = NewTask(tasks[t].wd, "retry_sleep")]
                 /\ UNCHANGED withdrawals
    /\ UNCHANGED <<now, psbt_to_withdraw_map, chans, balance, returned,
                   repeated, RestW>>

\* _retry_balance_check: asyncio.sleep(delay_seconds) ends and
\* process_withdrawal is awaited
RetryWakes(t) ==
    /\ tasks[t].pc = "retry_sleep"
    /\ tasks' = [tasks EXCEPT ![t].pc = "start"]
    /\ UNCHANGED <<now, psbt_to_withdraw_map, withdrawals, chans, balance,
                   returned, repeated, RestW>>

\* mutant: the fee is never taken off the amount
SweepAmount_NoFee(rec, spendable) ==
    IF rec.amount_sats_requested = NoneInt THEN spendable
    ELSE rec.amount_sats_requested

\* the amount handed to send_btc: the requested amount or the spendable
\* balance, less the estimated fee when deduct_fee_from_amount is set
SweepAmount(rec, spendable) ==
    LET base == IF rec.amount_sats_requested = NoneInt THEN spendable
                ELSE rec.amount_sats_requested IN
    IF rec.deduct_fee_from_amount THEN Max(0, base - ESTIMATED_FEE) ELSE base

\* SWEEPING_OUTPUTS: get_btc_balance answers; amount and fee are computed
\* and send_btc is called
SweepBalance(t, ok) ==
    /\ tasks[t].pc = "sweep_bal"
    /\ IF ok
       THEN /\ withdrawals' = [withdrawals EXCEPT
                  ![tasks[t].wd].fee_sats =
                      IF Rec(t).deduct_fee_from_amount THEN ESTIMATED_FEE ELSE NoneInt]
            /\ tasks' = [tasks EXCEPT ![t].pc = "sweep_send",
                                      ![t].amount = SweepAmount(Rec(t), balance)]
       ELSE Finish(t, Fail(Rec(t), "SWEEP_FAILED"))
    /\ UNCHANGED <<now, psbt_to_withdraw_map, chans, balance, returned,
                   repeated, RestW>>

\* SWEEPING_OUTPUTS: send_btc answers; txid and amount are stored, the
\* status is BROADCASTED and, in the next block, CONFIRMED
SweepSend(t, ok) ==
    /\ tasks[t].pc = "sweep_send"
    /\ IF ok /\ tasks[t].amount <= balance
       THEN /\ balance' = balance - tasks[t].amount
            /\ Continue(t, update_withdrawal_status(
                     [Rec(t) EXCEPT !.sweep_txid = "txid",
                                    !.amount_sats_sent = tasks[t].amount],
                     "BROADCASTED", "", FALSE), 6)
       ELSE /\ Finish(t, Fail(Rec(t), "SWEEP_FAILED"))
            /\ UNCHANGED balance
    /\ UNCHANGED <<now, psbt_to_withdraw_map, chans, returned,
                   repeated, RestW>>

\* process_withdrawal(id) is invoked again to resume a withdrawal that has no
\* invocation running or scheduled
Reinvoke(id) ==
    /\ withdrawals[id] # NoWd
    /\ TasksOf(id) = {}
    /\ FreeSlots # {}
    /\ tasks' = [tasks EXCEPT ![CHOOSE t \in FreeSlots : TRUE] = NewTask(id, "start")]
    /\ UNCHANGED <<now, psbt_to_withdraw_map, withdrawals, chans, balance,
                   returned, repeated, RestW>>

\* the node: a channel is opened, a closing channel settles on chain and
\* its funds become spendable
NodeOpenChannel(c) ==
    /\ chans[c] = "Absent"
    /\ chans' = [chans EXCEPT ![c] = "Open"]
    /\ UNCHANGED <<now, psbt_to_withdraw_map, withdrawals, tasks, balance,
                   returned, repeated, RestW>>

NodeChannelSettles(c) ==
    /\ chans[c] = "Closing"
    /\ chans' = [chans EXCEPT ![c] = "Absent"]
    /\ balance + ChannelSats <= MaxBalance
    /\ balance' = balance + ChannelSats
    /\ UNCHANGED <<now, psbt_to_withdraw_map, withdrawals, tasks,
                   returned, repeated, RestW>>

TickWd ==
    /\ now < MaxWdTime
    /\ now' = now + WdTickSeconds
    /\ UNCHANGED <<wdVars, RestW>>

TaskStep(t) ==
    \/ TaskStart(t)
    \/ RetryWakes(t)
    \/ \E ok \in BOOLEAN :
        \/ ReqBalance(t, ok)
        \/ ReqChannels(t, ok)
        \/ CloseList(t, ok)
        \/ CloseCall(t, ok)
        \/ CloseRefresh(t, ok)
        \/ WccList(t, ok)
        \/ WbuRefresh(t, ok)
        \/ WbuBalance(t, ok)
        \/ SweepBalance(t, ok)
        \/ SweepSend(t, ok)

NextWd ==
    \/ \E x \in WdWallets, b \in Bodies : withdraw_begin(x, b)
    \/ \E x \in WdWallets : withdraw_end(x)
    \/ \E t \in TaskSlots : TaskStep(t)
    \/ \E id \in WdIds : Reinvoke(id)
    \/ \E c \in Channels : NodeOpenChannel(c)
    \/ \E c \in Channels : NodeChannelSettles(c)
    \/ TickWd

SpecWd == Init /\ [][NextWd]_vars

\* the service process is killed and started again: the module-level
\* dictionaries and the asyncio tasks are gone, the node keeps its state
ServiceRestart ==
    /\ psbt_to_withdraw_map' = [x \in AllWdWallets |-> NoBody]
    /\ withdrawals' = [id \in WdIds |-> NoWd]
    /\ tasks' = [t \in TaskSlots |-> FreeTask]
    /\ UNCHANGED <<now, chans, balance, returned, repeated, RestW>>

NextWdKill == NextWd \/ ServiceRestart

SpecWdKill == Init /\ [][NextWdKill]_vars

Terminal == {"CONFIRMED", "FAILED"}
Chain == BranchStatus \o <<"CONFIRMED">>
Rank(st) == CHOOSE i \in DOMAIN Chain : Chain[i] = st

AllowedStep(a, b) ==
    /\ a \notin Terminal
    /\ \/ b = "FAILED"
       \/ b # "FAILED" /\ Rank(b) = Rank(a) + 1
       \/ a = "REQUESTED" /\ b = "SWEEPING_OUTPUTS"

Stored == { id \in WdIds : withdrawals[id] # NoWd }

\* C6: every status a withdrawal is given follows the previous one along
\* the chain REQUESTED .. CONFIRMED (or REQUESTED -> SWEEPING_OUTPUTS) or is
\* FAILED; no status is ever given after CONFIRMED or FAILED, whatever
\* invocations of process_withdrawal follow.
C6_StatusForwardOnly ==
    \A id \in Stored :
        LET tr == withdrawals[id].trail IN
        /\ tr[1] = "REQUESTED"
        /\ withdrawals[id].status = tr[Len(tr)]
        /\ \A i \in 1..(Len(tr) - 1) : AllowedStep(tr[i], tr[i + 1])

\* a withdrawal failed in mid-chain, process_withdrawal was invoked on it
\* again and it is still FAILED
C6_Witness ==
    \E id \in Stored :
        /\ withdrawals[id].status = "FAILED"
        /\ withdrawals[id].started_at = "FAILED"
        /\ Len(withdrawals[id].trail) >= 4
        /\ TasksOf(id) = {}

KeyHolders(tbl, key) ==
    { id \in WdIds : tbl[id] # NoWd /\ tbl[id].idempotency_key = key }

C7_Step ==
    /\ \A key \in Bodies :
        /\ Cardinality(KeyHolders(withdrawals', key)) <= 1
        /\ Cardinality(returned'[key]) <= 1
    /\ repeated' # repeated => withdrawals' = withdrawals /\ tasks' = tasks

\* C7: withdraw_end calls with the same request return one withdrawal id,
\* at most one record has a given idempotency key, and a call that finds
\* the record changes no record and creates no task.
C7_Idempotent == [][C7_Step]_vars

\* withdraw_end was called again with a request that has a withdrawal and
\* returned the id of the first call
C7_Witness ==
    \E key \in repeated :
        /\ Cardinality(returned[key]) = 1
        /\ returned[key] = KeyHolders(withdrawals, key)

PastClosing ==
    {"WAITING_CLOSE_CONFIRMATIONS", "WAITING_BALANCE_UPDATE", "SWEEPING_OUTPUTS",
     "BROADCASTED", "CONFIRMED"}

C8_Step ==
    \A t \in TaskSlots :
        /\ tasks[t].pc # "sweep_send" /\ tasks'[t].pc = "sweep_send"
            => "BROADCASTED" \notin Range(withdrawals[tasks'[t].wd].trail)
        /\ tasks[t].pc # "close_call" /\ tasks'[t].pc = "close_call"
            => Range(withdrawals[tasks'[t].wd].trail) \cap PastClosing = {}

\* C8: no invocation of process_withdrawal calls send_btc for a withdrawal
\* that has been BROADCASTED, and none calls close_channel for a withdrawal
\* that has been given a status after CLOSING_CHANNELS.
C8_NoRepeatedSendOrClose == [][C8_Step]_vars

\* a withdrawal that closed a channel and broadcast its sweep was resumed
\* after it was CONFIRMED
C8_Witness ==
    \E id \in Stored :
        /\ withdrawals[id].started_at = "CONFIRMED"
        /\ withdrawals[id].close_txids # << >>
        /\ withdrawals[id].sweep_txid = "txid"
        /\ TasksOf(id) = {}

\* C9: a withdrawal whose id withdraw_end has returned is still stored,
\* also after the service was killed and started again.
C9_RecordSurvivesRestart ==
    \A key \in Bodies : \A id \in returned[key] : withdrawals[id] # NoWd

\* ------------------------------------------------------------------------
\* workers/wallet_worker.py, workers/processors/transfer_watcher.py
\* ------------------------------------------------------------------------
\* UPDATE refresh_watchers SET status, refresh_count WHERE xpub_van = ..
\* AND recipient_id = ..: no row, no change
update_watcher_status(tbl, key, status, refresh_count) ==
    IF tbl[key] = NoRow THEN tbl
    ELSE [tbl EXCEPT ![key].status = status, ![key].refresh_count = refresh_count]

\* DELETE FROM refresh_watchers WHERE xpub_van = .. AND recipient_id = ..
stop_watcher(tbl, key) == [tbl EXCEPT ![key] = NoRow]

\* process_watchers_for_wallet: a row of get_active_watchers_for_wallet is
\* handed to watch_transfer
WtStart(p, key) ==
    /\ wt[p].pc = "idle"
    /\ wpc[p] = "idle"
    /\ ActiveWatcher(watchers[key])
    /\ wt' = [wt EXCEPT ![p] = [pc |-> "ensure", key |-> key,
                                 asset_id |-> watchers[key].asset_id,
                                 refresh_count |-> 0, transfer |-> NoTransfer,
                                 refreshed |-> "no"]]
    /\ UNCHANGED <<watchers, RestT>>

\* ensure_watcher_exists: an existing row is kept; without one (or when
\* the lookup fails) create_watcher is tried and its error is swallowed
WtEnsure(p, lookup_ok, create_ok) ==
    /\ wt[p].pc = "ensure"
    /\ LET key == wt[p].key
           existing == IF lookup_ok THEN get_watcher_status(watchers, key[1], key[2])
                       ELSE NoRow IN
       watchers' = IF existing = NoRow /\ create_ok
                   THEN create_watcher(watchers, key[1], key[2],
                                       wt[p].asset_id, WATCHER_TTL)
                   ELSE watchers
    /\ wt' = [wt EXCEPT ![p].pc = "poll"]
    /\ UNCHANGED RestT

\* what one pass of the loop sees of the transfer
Observations == {"none", "pending", "Settled", "Failed", "expired", "refresh_failure"}

\* one pass of the loop of watch_transfer up to its first write: a final
\* transfer status or an expired transfer sets the terminal status; else
\* the wallet is refreshed and the row is set to 'watching' with the new
\* refresh_count ('failed' when the refresh reports the transfer failed);
\* a write that fails is swallowed
WtPoll(p, obs, refresh_ok, update_ok) ==
    /\ wt[p].pc = "poll"
    /\ LET key == wt[p].key
           write(st, n) == IF update_ok THEN update_watcher_status(watchers, key, st, n)
                           ELSE watchers IN
       CASE obs \in {"Settled", "Failed"} ->
               /\ watchers' = write(IF obs = "Settled" THEN "settled" ELSE "failed",
                                    wt[p].refresh_count)
               /\ wt' = [wt EXCEPT ![p].pc = "stopping"]
         [] obs = "expired" ->
               /\ watchers' = write("expired", wt[p].refresh_count)
               /\ wt' = [wt EXCEPT ![p].pc = "stopping"]
         [] obs \in {"none", "pending", "refresh_failure"} ->
               IF ~refresh_ok
               THEN UNCHANGED <<watchers, wt>>
               ELSE /\ wt[p].refresh_count < MaxRefresh
                    /\ IF obs = "refresh_failure"
                       THEN /\ watchers' = write("failed", wt[p].refresh_count + 1)
                            /\ wt' = [wt EXCEPT ![p].pc = "stopping",
                                                ![p].refresh_count = @ + 1]
                       ELSE /\ watchers' = write("watching", wt[p].refresh_count + 1)
                            /\ wt' = [wt EXCEPT ![p].refresh_count = @ + 1]
    /\ UNCHANGED RestT

\* lifecycle.stop(): stop_watcher deletes the row, or fails and swallows
\* the error; watch_transfer returns
WtStop(p, stop_ok) ==
    /\ wt[p].pc = "stopping"
    /\ watchers' = IF stop_ok THEN stop_watcher(watchers, wt[p].key) ELSE watchers
    /\ wt' = [wt EXCEPT ![p] = WtIdle]
    /\ UNCHANGED RestT

\* shutdown_flag() is set: the loop ends
WtShutdown(p) ==
    /\ wt[p].pc = "poll"
    /\ wt' = [wt EXCEPT ![p] = WtIdle]
    /\ UNCHANGED <<watchers, RestT>>

\* the process is killed inside watch_transfer
WtKilled(p) ==
    /\ wt[p].pc # "idle"
    /\ wt' = [wt EXCEPT ![p] = WtIdle]
    /\ UNCHANGED <<watchers, RestT>>

NextWatch ==
    \/ NextJobs
    \/ \E p \in WatchWorkers, key \in WatcherKeys : WtStart(p, key)
    \/ \E p \in WatchWorkers, l \in BOOLEAN, c \in BOOLEAN : WtEnsure(p, l, c)
    \/ \E p \in WatchWorkers, obs \in Observations, r \in BOOLEAN, u \in BOOLEAN :
          WtPoll(p, obs, r, u)
    \/ \E p \in WatchWorkers, ok \in BOOLEAN : WtStop(p, ok)
    \/ \E p \in WatchWorkers : WtShutdown(p)
    \/ \E p \in WatchWorkers : WtKilled(p)

SpecWatch == Init /\ [][NextWatch]_vars

TerminalWatcher == {"settled", "failed", "expired"}

\* C10: a watcher row has a terminal status only while the watch_transfer
\* call that wrote it is about to delete the row.
C10_TerminalRowDeleted ==
    \A key \in WatcherKeys :
        watchers[key].status \in TerminalWatcher
            => \E p \in Workers : wt[p].pc = "stopping" /\ wt[p].key = key

TerminalStaysStep ==
    \A key \in WatcherKeys :
        watchers[key].status \in TerminalWatcher => watchers'[key].status # "watching"

\* no step turns a terminal watcher row into 'watching'
TerminalNeverWatchingAgain == [][TerminalStaysStep]_vars

\* ------------------------------------------------------------------------
\* The transfer of a watcher as the node reports it
\* src/routes.py (/wallet/listtransfers, /wallet/failtransfers),
\* workers/api/client.py, workers/utils.py,
\* workers/processors/transfer_utils.py
\* ------------------------------------------------------------------------
\* TransferStatus and TransferKind members, by enum value: the member names
\* of the enum, and the names the interface description gives them
StatusNames == <<"WAITING_COUNTERPARTY", "WAITING_CONFIRMATIONS", "SETTLED", "FAILED">>
KindNames == <<"ISSUANCE", "RECEIVE_BLIND", "RECEIVE_WITNESS", "SEND", "INFLATION">>
StatusCamel == <<"WaitingCounterparty", "WaitingConfirmations", "Settled", "Failed">>
KindCamel == <<"Issuance", "ReceiveBlind", "ReceiveWitness", "Send", "Inflation">>
WAITING_COUNTERPARTY == 0
WAITING_CONFIRMATIONS == 1
SETTLED == 2
FAILED == 3
RECEIVE_BLIND == 1
SEND == 3
\* the batch_transfer_idx the node gives the transfer
BatchIdx == 1
\* a JSON value of the listtransfers reply: a number or a string
JInt(n) == <<"int", n>>
JStr(s) == <<"str", s>>
IsInt(v) == v[1] = "int"
\* the encodings of an enum member in the reply: its value, its member
\* name, or its name in the interface description
Encodings == {"int", "name", "camel"}
Wire(enc, names, camel, n) ==
    CASE enc = "int" -> JInt(n)
      [] enc = "name" -> JStr(names[n + 1])
      [] enc = "camel" -> JStr(camel[n + 1])

\* str.upper() and str.lower() on the member names
Upper(s) ==
    CASE s = "WaitingCounterparty" -> "WAITINGCOUNTERPARTY"
      [] s = "WaitingConfirmations" -> "WAITINGCONFIRMATIONS"
      [] s = "Settled" -> "SETTLED"
      [] s = "Failed" -> "FAILED"
      [] s = "Issuance" -> "ISSUANCE"
      [] s = "ReceiveBlind" -> "RECEIVEBLIND"
      [] s = "ReceiveWitness" -> "RECEIVEWITNESS"
      [] s = "Send" -> "SEND"
      [] s = "Inflation" -> "INFLATION"
      [] OTHER -> s
Lower(s) ==
    CASE s = "WaitingCounterparty" -> "waitingcounterparty"
      [] s = "WaitingConfirmations" -> "waitingconfirmations"
      [] s = "Settled" -> "settled"
      [] s = "Failed" -> "failed"
      [] s = "WAITING_COUNTERPARTY" -> "waiting_counterparty"
      [] s = "WAITING_CONFIRMATIONS" -> "waiting_confirmations"
      [] s = "SETTLED" -> "settled"
      [] s = "FAILED" -> "failed"
      [] OTHER -> s

\* the dict of one transfer in the reply of /wallet/listtransfers
TransferJson(tr) ==
    [recipient_id |-> tr.recipient_id,
     status |-> Wire(tr.enc, StatusNames, StatusCamel, tr.status),
     kind |-> Wire(tr.enc, KindNames, KindCamel, tr.kind),
     expiration |-> tr.expiration,
     batch_transfer_idx |-> tr.batch_transfer_idx,
     asset_id |-> tr.asset_id]

\* is_transfer_completed: an int in [2, 3], or a string whose upper() is
\* 'SETTLED' or 'FAILED'
is_transfer_completed(transfer) ==
    IF IsInt(transfer.status)
    THEN transfer.status[2] \in {SETTLED, FAILED}
    ELSE Upper(transfer.status[2]) \in {"SETTLED", "FAILED"}

\* normalize_transfer_status: int 2 is 'settled', any other int 'failed';
\* a string is lower-cased
normalize_transfer_status(status) ==
    IF IsInt(status)
    THEN (IF status[2] = SETTLED THEN "settled" ELSE "failed")
    ELSE Lower(status[2])

\* is_transfer_expired: no expiration, False; an int kind other than 1,
\* False; kind.upper() == 'RECEIVE_BLIND' and expiration < now
is_transfer_expired(transfer) ==
    IF transfer.expiration = 0 THEN FALSE
    ELSE IF IsInt(transfer.kind) /\ transfer.kind[2] # RECEIVE_BLIND THEN FALSE
    ELSE LET kind == IF IsInt(transfer.kind) THEN "RECEIVE_BLIND"
                     ELSE Upper(transfer.kind[2]) IN
         kind = "RECEIVE_BLIND" /\ transfer.expiration < now

\* can_cancel_transfer: status 'WAITING_COUNTERPARTY' (int 0, or the
\* upper() of a string), expiration in the past, and kind 'RECEIVE_BLIND'
\* (int 1, or the upper() of a string) or the invoice duration over too
can_cancel_transfer(transfer) ==
    LET status == IF IsInt(transfer.status)
                  THEN (IF transfer.status[2] = WAITING_COUNTERPARTY
                        THEN "WAITING_COUNTERPARTY" ELSE "other")
                  ELSE Upper(transfer.status[2])
        kind == IF IsInt(transfer.kind)
                THEN (IF transfer.kind[2] = RECEIVE_BLIND
                      THEN "RECEIVE_BLIND" ELSE "other")
                ELSE Upper(transfer.kind[2]) IN
    /\ status = "WAITING_COUNTERPARTY"
    /\ transfer.expiration # 0
    /\ transfer.expiration < now
    /\ \/ kind = "RECEIVE_BLIND"
       \/ transfer.expiration + RGB_INVOICE_DURATION_SECONDS < now

\* UPDATE refresh_watchers SET asset_id and, when an expiration is given,
\* expires_at WHERE xpub_van = .. AND recipient_id = ..
update_watcher_asset_and_expiration(tbl, key, asset_id, expiration) ==
    IF tbl[key] = NoRow THEN tbl
    ELSE [tbl EXCEPT ![key].asset_id = asset_id,
                     ![key].expires_at = IF expiration # 0 THEN expiration ELSE @]

\* the wallets whose transfers the node actions change
NodeWallets == {"w1"}
NodeKeys == NodeWallets \X Recipients
\* the asset a transfer turns out to carry
Assets == {"a1"}

\* the node: a blind receive (asset not yet known) or a send is created
\* for the recipient_id, valid for TransferValidity seconds
NodeTransferCreated(key, enc, kind) ==
    /\ transfers[key] = NoTransfer
    /\ transfers' = [transfers EXCEPT ![key] =
          [recipient_id |-> key[2], enc |-> enc,
           status |-> WAITING_COUNTERPARTY, kind |-> kind,
           expiration |-> now + TransferValidity,
           batch_transfer_idx |-> BatchIdx,
           asset_id |-> IF kind = RECEIVE_BLIND THEN NoAsset ELSE "a1"]]
    /\ UNCHANGED <<now, watchers, wt, failCalls, RestK>>

\* the node: the counterparty acts (the asset of a blind receive becomes
\* known), then the transaction confirms
NodeTransferAdvances(key) ==
    /\ transfers[key] # NoTransfer
    /\ transfers[key].status \in {WAITING_COUNTERPARTY, WAITING_CONFIRMATIONS}
    /\ transfers' = [transfers EXCEPT ![key].status = @ + 1, ![key].asset_id = "a1"]
    /\ UNCHANGED <<now, watchers, wt, failCalls, RestK>>

\* the node: the transfer fails
NodeTransferFails(key) ==
    /\ transfers[key] # NoTransfer
    /\ transfers[key].status \in {WAITING_COUNTERPARTY, WAITING_CONFIRMATIONS}
    /\ transfers' = [transfers EXCEPT ![key].status = FAILED]
    /\ UNCHANGED <<now, watchers, wt, failCalls, RestK>>

\* /wallet/failtransfers: a transfer waiting for the counterparty is set
\* to Failed
fail_transfers(tbl, key) ==
    IF tbl[key] # NoTransfer /\ tbl[key].status = WAITING_COUNTERPARTY
    THEN [tbl EXCEPT ![key].status = FAILED]
    ELSE tbl

TickWatch ==
    /\ now + WatchTickSeconds <= MaxWatchTime
    /\ now' = now + WatchTickSeconds
    /\ UNCHANGED <<watchers, wt, nodeVars, RestK>>

\* what refresher.refresh() returns: None (lock busy, request failed, empty
\* reply), a reply without a failure for the transfer, a reply with one
RefreshReplies == {"none", "ok", "failure"}
\* why `if refresh_response:` is not taken: acquire_wallet_lock returned
\* False, refresh_wallet raised, or refresh_wallet returned an empty map
FalsyRefreshes == {"busy", "raised", "empty"}

\* one pass of the loop of watch_transfer: get_transfer_status with the
\* watcher's asset_id, find_transfer_in_all_assets when nothing is found
\* and the asset_id is not known; a completed transfer, then an expired
\* one (with fail_transfers when it can be cancelled), ends the watch;
\* else refresher.refresh() and update_status
WtPass(p, at, api_ok, search_ok, fail_ok, reply, update_ok) ==
    /\ wt[p].pc = at
    /\ LET key == wt[p].key
           node == transfers[key]
           listed == IF api_ok /\ node # NoTransfer /\ node.asset_id = wt[p].asset_id
                     THEN TransferJson(node) ELSE NoTransfer
           result == IF listed = NoTransfer /\ wt[p].asset_id = NoAsset
                        /\ search_ok /\ node # NoTransfer
                     THEN TransferJson(node) ELSE NoTransfer
           transfer == IF listed # NoTransfer THEN listed ELSE result
           found_asset_id == IF result # NoTransfer THEN result.asset_id ELSE NoAsset
           asset_id == IF found_asset_id # NoAsset THEN found_asset_id
                       ELSE wt[p].asset_id
           tbl == IF found_asset_id # NoAsset
                  THEN update_watcher_asset_and_expiration(watchers, key,
                           found_asset_id, result.expiration)
                  ELSE watchers
           write(st, n) == IF update_ok THEN update_watcher_status(tbl, key, st, n)
                           ELSE tbl
           seen == [wt EXCEPT ![p].pc = "poll", ![p].asset_id = asset_id,
                              ![p].transfer = transfer, ![p].refreshed = "no"]
           stopping == [seen EXCEPT ![p].pc = "stopping"]
       IN
       IF transfer # NoTransfer /\ is_transfer_completed(transfer)
       THEN /\ watchers' = write(normalize_transfer_status(transfer.status),
                                 wt[p].refresh_count)
            /\ wt' = stopping
            /\ UNCHANGED nodeVars
       ELSE IF transfer # NoTransfer /\ is_transfer_expired(transfer)
       THEN /\ IF can_cancel_transfer(transfer)
                  /\ transfer.batch_transfer_idx # NoneInt
               THEN /\ Len(failCalls[key]) < MaxFailCalls
                    /\ failCalls' = [failCalls EXCEPT ![key] =
                                        Append(@, [transfer |-> transfer, at |-> now])]
                    /\ transfers' = IF fail_ok THEN fail_transfers(transfers, key)
                                    ELSE transfers
               ELSE UNCHANGED nodeVars
            /\ watchers' = write("expired", wt[p].refresh_count)
            /\ wt' = stopping
       ELSE /\ UNCHANGED nodeVars
            /\ IF reply = "none"
               THEN /\ watchers' = tbl
                    /\ \E why \in FalsyRefreshes :
                          wt' = [seen EXCEPT ![p].refreshed = why]
               ELSE /\ wt[p].refresh_count < MaxRefresh
                    /\ IF reply = "failure" /\ transfer # NoTransfer
                          /\ transfer.batch_transfer_idx # NoneInt
                       THEN /\ watchers' = write("failed", wt[p].refresh_count + 1)
                            /\ wt' = [stopping EXCEPT ![p].refresh_count = @ + 1,
                                                      ![p].refreshed = "failure"]
                       ELSE /\ watchers' = write("watching", wt[p].refresh_count + 1)
                            /\ wt' = [seen EXCEPT ![p].refresh_count = @ + 1,
                                                  ![p].refreshed = "ok"]
    /\ UNCHANGED <<now, RestK>>

\* one pass of the loop, from `while not shutdown_flag()` to time.sleep
WtTick(p, api_ok, search_ok, fail_ok, reply, update_ok) ==
    WtPass(p, "poll", api_ok, search_ok, fail_ok, reply, update_ok)

\* the job steps that create the watcher of the invoice of wallet w1
TickJobs ==
    \/ \E k \in JobKinds :
          jobs = << >> /\ IsInvoiceCase(k) /\ enqueue_refresh_job("w1", k)
    \/ \E w \in WatchWorkers : DequeueSelect(w, "w1")
    \/ \E w \in WatchWorkers : DequeueCommit(w)
    \/ \E w \in WatchWorkers, l \in BOOLEAN, c \in BOOLEAN : process_job_invoice(w, l, c)

NextTick ==
    \/ TickJobs
    \/ TickWatch
    \/ \E key \in NodeKeys, enc \in Encodings, kind \in {RECEIVE_BLIND, SEND} :
          NodeTransferCreated(key, enc, kind)
    \/ \E key \in NodeKeys : NodeTransferAdvances(key)
    \/ \E key \in NodeKeys : NodeTransferFails(key)
    \/ \E p \in WatchWorkers, key \in NodeKeys : WtStart(p, key)
    \/ \E p \in WatchWorkers, l \in BOOLEAN, c \in BOOLEAN : WtEnsure(p, l, c)
    \/ \E p \in WatchWorkers, a \in BOOLEAN, s \in BOOLEAN, f \in BOOLEAN,
          r \in RefreshReplies, u \in BOOLEAN : WtTick(p, a, s, f, r, u)
    \/ \E p \in WatchWorkers, ok \in BOOLEAN : WtStop(p, ok)
    \/ \E p \in WatchWorkers : WtShutdown(p)

SpecTick == Init /\ [][NextTick]_vars

\* ------------------------------------------------------------------------
\* Claims on the watcher tick
\* ------------------------------------------------------------------------
\* the transfer as the node holds it: final, or an expired blind receive
NodeFinal(key) ==
    transfers[key] # NoTransfer /\ transfers[key].status \in {SETTLED, FAILED}
NodeExpired(key) ==
    /\ transfers[key] # NoTransfer
    /\ transfers[key].kind = RECEIVE_BLIND
    /\ transfers[key].expiration < now
FinalName(key) == IF transfers[key].status = SETTLED THEN "settled" ELSE "failed"

\* p makes a pass of the loop / ends the watch of its transfer / returns
\* from watch_transfer after lifecycle.stop()
Passes(p) == wt[p].pc = "poll" /\ wt'[p].pc \in {"poll", "stopping"} /\ wt'[p] # wt[p]
EndsWatch(p) == wt[p].pc = "poll" /\ wt'[p].pc = "stopping"
Returns(p) == wt[p].pc = "stopping" /\ wt'[p].pc = "idle"
\* the pass that ends the watch because the refresh reply reports the
\* transfer failed
RefreshFailure(p) == EndsWatch(p) /\ wt'[p].refresh_count = wt[p].refresh_count + 1

C11_Step ==
    \A p \in WatchWorkers :
        LET key == wt[p].key IN
        /\ EndsWatch(p) /\ NodeFinal(key) /\ watchers[key] # NoRow
              => /\ watchers'[key].status = FinalName(key)
                 /\ wt'[p].refresh_count = wt[p].refresh_count
        /\ Returns(p) /\ NodeFinal(key) => watchers'[key] = NoRow
        /\ Passes(p) /\ ~NodeFinal(key) /\ ~NodeExpired(key) /\ ~RefreshFailure(p)
              /\ watchers[key] # NoRow /\ watchers[key].status = "watching"
              => watchers'[key].status = "watching"

\* C11: the pass that ends the watch of a Settled or Failed transfer writes
\* 'settled' or 'failed' on the watcher row without another refresh, and
\* the row is gone when watch_transfer returns; a pass over a transfer that
\* is neither final nor expired leaves the row 'watching'.
C11_FinalTransferEndsWatch == [][C11_Step]_vars

\* the TTL of p's watcher row has run out and its asset_id is not known
TtlElapsed(p) ==
    /\ wt[p].pc = "poll"
    /\ wt[p].asset_id = NoAsset
    /\ watchers[wt[p].key] # NoRow
    /\ watchers[wt[p].key].expires_at <= now

C12_Step ==
    \A p \in WatchWorkers :
        LET key == wt[p].key IN
        TtlElapsed(p) /\ Passes(p) /\ wt'[p].asset_id = NoAsset
            => /\ wt'[p].pc = "stopping"
               /\ watchers'[key].status = "expired"
               /\ Len(jobs') = Len(jobs) + 1
               /\ jobs'[Len(jobs')].trigger = "sync"
               /\ jobs'[Len(jobs')].xpub_van = key[1]

\* C12: a pass of the loop made after the expires_at of a watcher without
\* asset_id, the asset still not found, sets the row to 'expired', ends the
\* watch and enqueues one 'sync' job for the wallet.
C12_TtlExpiresWatcher == [][C12_Step]_vars

\* the transfer as the node holds it is a blind receive that waits for the
\* counterparty and whose expiration is in the past / one that
\* can_cancel_transfer describes
NodeWaitingBlindExpired(key) ==
    /\ transfers[key] # NoTransfer
    /\ transfers[key].status = WAITING_COUNTERPARTY
    /\ transfers[key].kind = RECEIVE_BLIND
    /\ transfers[key].expiration # 0
    /\ transfers[key].expiration < now
NodeCancellable(key) ==
    /\ transfers[key] # NoTransfer
    /\ transfers[key].status = WAITING_COUNTERPARTY
    /\ transfers[key].expiration # 0
    /\ transfers[key].expiration < now
    /\ \/ transfers[key].kind = RECEIVE_BLIND
       \/ transfers[key].expiration + RGB_INVOICE_DURATION_SECONDS < now

C13_Step ==
    \A p \in WatchWorkers :
        LET key == wt[p].key IN
        /\ Passes(p) /\ wt'[p].transfer # NoTransfer /\ NodeWaitingBlindExpired(key)
              => /\ Len(failCalls'[key]) = Len(failCalls[key]) + 1
                 /\ wt'[p].pc = "stopping"
                 /\ watchers[key] # NoRow => watchers'[key].status = "expired"
        /\ Returns(p) /\ watchers[key] # NoRow /\ watchers[key].status = "expired"
              => watchers'[key] = NoRow

\* C13: the pass of the loop that obtains a blind receive still waiting for
\* the counterparty after its expiration calls fail_transfers once, sets
\* the watcher 'expired' and ends the watch, and the row is gone when
\* watch_transfer returns.
C13_ExpiredBlindReceiveCancelled == [][C13_Step]_vars

C13_OnlyCancellableStep ==
    \A key \in WatcherKeys : failCalls'[key] # failCalls[key] => NodeCancellable(key)

\* fail_transfers is called only for a transfer that is waiting for the
\* counterparty after its expiration
C13_OnlyCancellable == [][C13_OnlyCancellableStep]_vars

\* ------------------------------------------------------------------------
\* process_job around process_wallet_unified
\* workers/processors/job_processor.py, workers/processors/unified_handler.py
\* ------------------------------------------------------------------------
\* the wallet and the worker process of the jobs followed here
ProcWallets == {"w1"}
ProcWorkers == {"p1"}

\* process_job, every job but the invoice_created case: process_wallet_unified
\* is entered and calls acquire_wallet_lock for the wallet of the job
PuStart(w) ==
    /\ wpc[w] = "holding"
    /\ ~IsInvoiceCase(jobs[wjob[w]])
    /\ lk[w].res = "none"
    /\ AcquireCleanup(w, jobs[wjob[w]].xpub_van, "pu")

\* process_wallet_unified has returned (lock not acquired, refresh done, or
\* max_retries attempts failed and the loop was left by break):
\* mark_job_completed
PuReturned(w) ==
    /\ wpc[w] = "holding"
    /\ lk[w].pc = "idle"
    /\ lk[w].res # "none"
    /\ mark_job_completed(wjob[w])
    /\ Release(w)
    /\ lk' = [lk EXCEPT ![w] = LkIdle]
    /\ UNCHANGED <<now, watchers, locks, liveGrant, RestL>>

NextProc ==
    \/ \E x \in ProcWallets, k \in JobKinds : enqueue_refresh_job(x, k)
    \/ \E w \in ProcWorkers, x \in ProcWallets : DequeueSelect(w, x)
    \/ \E w \in ProcWorkers : DequeueCommit(w)
    \/ \E w \in ProcWorkers, l \in BOOLEAN, c \in BOOLEAN : process_job_invoice(w, l, c)
    \/ \E w \in ProcWorkers : PuStart(w)
    \/ \E w \in ProcWorkers : AcquireInsert(w)
    \/ \E w \in ProcWorkers : AcquireError(w)
    \/ \E w \in ProcWorkers : PuRefreshSucceeds(w)
    \/ \E w \in ProcWorkers : PuRefreshFails(w)
    \/ \E w \in ProcWorkers : PuRetry(w)
    \/ \E w \in ProcWorkers, ok \in BOOLEAN : ReleaseLock(w, ok)
    \/ \E w \in ProcWorkers : PuReturned(w)

SpecProc == Init /\ [][NextProc]_vars

\* every refresh attempt of the process_wallet_unified call of w failed
RefreshExhausted(w) == lk[w].res = "true" /\ lk[w].attempts >= MAX_RETRIES

C14_Step ==
    \A w \in ProcWorkers :
        wpc[w] = "holding" /\ wpc'[w] = "idle" =>
            LET i == wjob[w] IN
            /\ RefreshExhausted(w) => jobs'[i].status # "completed"
            /\ jobs'[i].status # "completed"
                  => /\ jobs'[i].attempts = jobs[i].attempts + 1
                     /\ jobs'[i].status =
                           IF jobs'[i].attempts < MAX_RETRIES THEN "pending" ELSE "failed"

\* C14: a job whose processing met an error is not marked completed, in
\* particular not when every refresh_wallet attempt of
\* process_wallet_unified failed; it goes back to pending with attempts
\* incremented while attempts < MAX_RETRIES, and to failed otherwise.
C14_ErrorFailsJob == [][C14_Step]_vars

\* ------------------------------------------------------------------------
\* src/queue/recovery.py, src/queue/watchers.py (get_active_watchers)
\* ------------------------------------------------------------------------
\* mutant: the SELECT without the expires_at condition
get_active_watchers_AnyWatching(tbl) ==
    { k \in WatcherKeys : tbl[k].status = "watching" }

\* get_active_watchers: SELECT * FROM refresh_watchers WHERE status =
\* 'watching' AND (expires_at IS NULL OR expires_at > NOW())
get_active_watchers(tbl) ==
    { k \in WatcherKeys : tbl[k].status = "watching" /\ tbl[k].expires_at > now }

\* mutant: a watcher whose wallet has a pending 'recovery' job is skipped
ToRecover_SkipQueued(listed, queue) ==
    { k \in listed :
        ~\E i \in 1..Len(queue) : /\ queue[i].xpub_van = k[1]
                                  /\ queue[i].trigger = "recovery"
                                  /\ queue[i].status = "pending" }

\* recover_active_watchers: the loop visits every row it read
ToRecover(listed, queue) == listed

\* the orders in which the rows of a SELECT without ORDER BY can come
Orders(S) ==
    { s \in [1..Cardinality(S) -> S] : \A i, j \in DOMAIN s : s[i] = s[j] => i = j }

\* the row enqueue_refresh_job(xpub_van, ..., trigger='recovery') inserts
RecoveryJob(x) ==
    [xpub_van |-> x, trigger |-> "recovery", recipient_id |-> NoRecipient,
     asset_id |-> NoAsset, status |-> "pending", attempts |-> 0,
     locked_by |-> NoWorker]

\* recover_active_watchers: get_active_watchers (an empty list when the
\* query fails), then one enqueue_refresh_job per row; an enqueue that
\* raises is logged and the loop goes on; returns the number enqueued
recover_active_watchers(list_ok, order, failed) ==
    LET listed == IF list_ok THEN get_active_watchers(watchers) ELSE {}
        todo == SelectSeq(order, LAMBDA k : k \in ToRecover(listed, jobs) /\ k \notin failed)
    IN
    /\ order \in Orders(listed)
    /\ failed \subseteq listed
    /\ Len(jobs) + Len(todo) <= MaxQueue
    /\ jobs' = jobs \o [i \in 1..Len(todo) |-> RecoveryJob(todo[i][1])]
    /\ hist' = hist \o [i \in 1..Len(todo) |-> <<"pending">>]
    /\ lastRecovery' = [ran |-> TRUE, list_ok |-> list_ok, failed |-> failed,
                        recovered |-> Len(todo), jobs |-> jobs,
                        watchers |-> watchers, at |-> now]
    /\ UNCHANGED <<now, wpc, wjob, watchers, lockVars, supVars, wdVars, wt, nodeVars, chanAttr, answered, ww>>

\* wallet x has no row in the queue yet: it gets one invoice
NoInvoiceYet(x) == \A i \in 1..Len(jobs) : jobs[i].xpub_van # x

NextRecovery ==
    \/ \E x \in Wallets, k \in JobKinds :
          NoInvoiceYet(x) /\ IsInvoiceCase(k) /\ enqueue_refresh_job(x, k)
    \/ \E w \in WatchWorkers, x \in Wallets : DequeueSelect(w, x)
    \/ \E w \in WatchWorkers : DequeueCommit(w)
    \/ \E w \in WatchWorkers, l \in BOOLEAN, c \in BOOLEAN : process_job_invoice(w, l, c)
    \/ \E w \in WatchWorkers : process_job_unified(w)
    \/ TickWatch
    \/ \E l \in BOOLEAN, f \in SUBSET WatcherKeys :
          \E o \in Orders(IF l THEN get_active_watchers(watchers) ELSE {}) :
              recover_active_watchers(l, o, f)

SpecRecovery == Init /\ [][NextRecovery]_vars

\* ------------------------------------------------------------------------
\* Claims on recovery
\* ------------------------------------------------------------------------
IsActive(row) == row.status = "watching" /\ row.expires_at > now
\* the rows a recover_active_watchers step appends to the queue
NewJobs == SubSeq(jobs', Len(jobs) + 1, Len(jobs'))
\* how many rows of the sequence q belong to wallet x
CountFor(q, x) == Cardinality({ i \in 1..Len(q) : q[i].xpub_van = x })
Recovers == lastRecovery' # lastRecovery

C19_Step ==
    Recovers =>
        LET r == lastRecovery' IN
        /\ SubSeq(jobs', 1, Len(jobs)) = jobs
        /\ \A i \in 1..Len(NewJobs) :
              NewJobs[i].trigger = "recovery" /\ NewJobs[i].status = "pending"
        /\ r.list_ok =>
              \A x \in Wallets :
                  CountFor(NewJobs, x) =
                      Cardinality({ k \in WatcherKeys :
                          k[1] = x /\ IsActive(watchers[k]) /\ k \notin r.failed })
        /\ r.recovered = Len(NewJobs)
        /\ watchers' = watchers

IsActiveAt(row, t) == row.status = "watching" /\ row.expires_at > t
\* the rows the last recover_active_watchers call appended, as they are now
LastJobs ==
    SubSeq(jobs, Len(lastRecovery.jobs) + 1,
           Len(lastRecovery.jobs) + lastRecovery.recovered)
\* nothing has happened since the last call: the queue is the one it left,
\* the watcher table is the one it read and the same watchers are active
NothingSince ==
    /\ lastRecovery.ran
    /\ Len(jobs) = Len(lastRecovery.jobs) + lastRecovery.recovered
    /\ SubSeq(jobs, 1, Len(lastRecovery.jobs)) = lastRecovery.jobs
    /\ \A i \in 1..Len(LastJobs) : LastJobs[i] = RecoveryJob(LastJobs[i].xpub_van)
    /\ watchers = lastRecovery.watchers
    /\ \A k \in WatcherKeys :
          IsActiveAt(watchers[k], now) = IsActiveAt(watchers[k], lastRecovery.at)
NoFailure(r) == r.list_ok /\ r.failed = {}

C20_Step ==
    Recovers /\ NothingSince /\ NoFailure(lastRecovery) /\ NoFailure(lastRecovery')
        => /\ \A x \in Wallets : CountFor(NewJobs, x) = CountFor(LastJobs, x)
           /\ \A i \in 1..Len(NewJobs) : NewJobs[i] = RecoveryJob(NewJobs[i].xpub_van)
           /\ watchers' = watchers

WorkerStep(w) ==
    \/ \E x \in Wallets \cup {AnyWallet} : DequeueSelect(w, x)
    \/ DequeueCommit(w)
    \/ \E l \in BOOLEAN, c \in BOOLEAN : process_job_invoice(w, l, c)
    \/ process_job_unified(w)

\* the loop of a worker goes on: a step it can take is taken at some time
SpecCrash == Init /\ [][NextJobs]_vars /\ \A w \in Workers : WF_vars(WorkerStep(w))

InProcessing(i) == i <= Len(jobs) /\ jobs[i].status = "processing"
Finished(i) == i <= Len(jobs) /\ jobs[i].status \in {"completed", "failed"}

\* C15: every job that is 'processing' reaches 'completed' or 'failed' at
\* some later time, also when the worker that dequeued it was killed or
\* its mark_job_completed / mark_job_failed was lost.
C15_ProcessingJobFinishes ==
    \A i \in 1..MaxQueue : InProcessing(i) ~> Finished(i)

\* a job is 'processing' and no worker holds it
Abandoned(i) ==
    /\ InProcessing(i)
    /\ \A w \in Workers : wjob[w] # i
AbandonedStaysStep ==
    \A i \in 1..MaxQueue : Abandoned(i) => jobs'[i] = jobs[i] /\ Abandoned(i)'

\* no step changes a 'processing' row that no worker holds
AbandonedStays == [][AbandonedStaysStep]_vars

\* ------------------------------------------------------------------------
\* The queue as the wallet workers use it: dequeue_job_for_wallet only
\* workers/wallet_worker.py (main), src/queue/jobs.py
\* ------------------------------------------------------------------------
NextWalletJobs ==
    \/ \E x \in Wallets, k \in JobKinds : enqueue_refresh_job(x, k)
    \/ \E w \in Workers, x \in Wallets : DequeueSelect(w, x)
    \/ \E w \in Workers : DequeueCommit(w)
    \/ \E w \in Workers : DequeueAbort(w)
    \/ \E w \in Workers, l \in BOOLEAN, c \in BOOLEAN : process_job_invoice(w, l, c)
    \/ \E w \in Workers : process_job_unified(w)
    \/ \E w \in Workers : process_job_mark_error(w)
    \/ \E w \in Workers : WorkerKilled(w)

SpecWalletJobs == Init /\ [][NextWalletJobs]_vars

\* job i starts processing in this step
Starts(i) == jobs[i].status # "processing" /\ jobs'[i].status = "processing"
\* an older job of the same wallet is pending
OlderPending(i) ==
    \E j \in 1..(i - 1) :
        jobs[j].xpub_van = jobs[i].xpub_van /\ jobs[j].status = "pending"

C16_Step == \A i \in 1..Len(jobs) : Starts(i) => ~OlderPending(i)

\* C16: a job starts processing only when no older job of its wallet is
\* pending (jobs of a wallet are executed in created_at order).
C16_WalletFifo == [][C16_Step]_vars

\* C17: two dequeue_job_for_wallet calls for one wallet never both have a
\* row: of two calls that overlap, one returns None.
C17_OneRowPerWallet ==
    \A w, v \in Workers :
        w # v /\ wpc[w] = "dq_locked" /\ wpc[v] = "dq_locked"
            => jobs[wjob[w]].xpub_van # jobs[wjob[v]].xpub_van

\* ------------------------------------------------------------------------
\* Claim on the supervisor's process cap
\* ------------------------------------------------------------------------
\* the supervisor with one manual refresh request per wallet of SupWallets,
\* so that every wallet can have a pending job at once
NextCap ==
    \/ \E x \in SupWallets :
          /\ \A i \in 1..Len(jobs) : jobs[i].xpub_van # x
          /\ jobs' = Append(jobs, [xpub_van |-> x, trigger |-> "manual",
                                   recipient_id |-> NoRecipient, asset_id |-> NoAsset,
                                   status |-> "pending", attempts |-> 0,
                                   locked_by |-> NoWorker])
          /\ hist' = Append(hist, <<"pending">>)
          /\ UNCHANGED <<now, wpc, wjob, watchers, RestJ>>
    \/ \E c \in BOOLEAN, q \in BOOLEAN : SupervisorPoll(c, q)
    \/ \E x \in SupWallets, ok \in BOOLEAN : SupervisorVisit(x, ok)
    \/ \E pid \in 1..MaxSpawns : WorkerExits(pid)
    \/ \E pid \in 1..MaxSpawns : WorkerRunsJob(pid)
    \/ terminate_all_processes

SpecCap == Init /\ [][NextCap]_vars

\* every live wallet-worker process, tracked or not
LiveCount == Cardinality({ pid \in 1..Len(procs) : procs[pid].running })

\* the spawn loop reaches wallet x, which has no running worker, while
\* MAX_WALLET_PROCESSES tracked workers are running
VisitAtCap(x) ==
    /\ ~supStopped
    /\ ~supStopped'
    /\ x \in supTodo
    /\ supTodo' = supTodo \ {x}
    /\ ~IsRunning(active_processes[x])
    /\ RunningCount([active_processes EXCEPT ![x] = NoPid]) >= MAX_WALLET_PROCESSES

C18_Step ==
    \A x \in SupWallets :
        VisitAtCap(x) =>
            /\ procs' = procs
            /\ active_processes'[x] = NoPid
            /\ LiveCount' = MAX_WALLET_PROCESSES

\* C18: the number of live wallet-worker processes never exceeds
\* MAX_WALLET_PROCESSES; a visit of the spawn loop that finds the cap reached
\* spawns nothing and leaves the wallet without a worker, and exactly
\* MAX_WALLET_PROCESSES workers are then alive.
C18_WorkerCap == [](LiveCount <= MAX_WALLET_PROCESSES) /\ [][C18_Step]_vars

\* three wallets need work, two have a running worker, and the third was
\* passed over by the running iteration although the model still allows a spawn
C18_Witness ==
    /\ WalletsNeedingProcessing = SupWallets
    /\ LiveCount = MAX_WALLET_PROCESSES
    /\ Len(procs) < MaxSpawns
    /\ supTodo # {}
    /\ \E x \in SupWallets \ supTodo : active_processes[x] = NoPid

\* ------------------------------------------------------------------------
\* The withdrawal service that stays up while a withdrawal waits for its
\* balance: the clock runs on until the wait has lasted BALANCE_TIMEOUT
\* ------------------------------------------------------------------------
Waiting(id) == withdrawals[id] # NoWd /\ withdrawals[id].status = "WAITING_BALANCE_UPDATE"

TickWait ==
    /\ \/ now < MaxWdTime
       \/ \E id \in WdIds :
            Waiting(id) /\ now - withdrawals[id].balance_wait_started_at < BALANCE_TIMEOUT
    /\ now' = now + WdTickSeconds
    /\ UNCHANGED <<wdVars, RestW>>

NextWait ==
    \/ \E x \in WdWallets, b \in Bodies : withdraw_begin(x, b)
    \/ \E x \in WdWallets : withdraw_end(x)
    \/ \E t \in TaskSlots : TaskStep(t)
    \/ \E c \in Channels : NodeOpenChannel(c)
    \/ \E c \in Channels : NodeChannelSettles(c)
    \/ TickWait

\* every created task is run by the event loop and time passes
SpecWait ==
    /\ Init
    /\ [][NextWait]_vars
    /\ \A t \in TaskSlots : WF_vars(TaskStep(t))
    /\ WF_vars(TickWait)

TimedOut(rec) ==
    /\ rec.status = "FAILED"
    /\ rec.error_code = "BALANCE_UPDATE_TIMEOUT"

C21_Step ==
    \A id \in WdIds :
        Waiting(id) =>
            LET rec == withdrawals[id]
                elapsed == now - rec.balance_wait_started_at IN
            \* an invocation that finds the wait at BALANCE_TIMEOUT or more
            \* fails the withdrawal
            /\ \A t \in TaskSlots :
                  /\ tasks[t].pc = "start" /\ tasks[t].wd = id
                  /\ tasks'[t] # tasks[t]
                  /\ elapsed >= BALANCE_TIMEOUT
                  => TimedOut(withdrawals'[id]) /\ withdrawals'[id].retryable
            \* and no step fails it with that code earlier
            /\ TimedOut(withdrawals'[id]) =>
                  elapsed >= BALANCE_TIMEOUT /\ withdrawals'[id].retryable
            \* while it waits an invocation is running or scheduled
            /\ Waiting(id)' => TasksOf(id)' # {}

\* C21: a withdrawal in WAITING_BALANCE_UPDATE does not stay there: while
\* it waits an invocation of process_withdrawal is running or sleeping
\* before the next check; the invocation that starts once BALANCE_TIMEOUT
\* seconds have passed since balance_wait_started_at makes it FAILED with
\* BALANCE_UPDATE_TIMEOUT and retryable, and it is never failed with that
\* code earlier.
C21_BalanceWaitEnds ==
    /\ [][C21_Step]_vars
    /\ \A id \in WdIds : Waiting(id) ~> ~Waiting(id)

\* a withdrawal whose balance did not rise timed out after a retry
C21_Witness ==
    \E id \in WdIds :
        /\ withdrawals[id] # NoWd
        /\ TimedOut(withdrawals[id])
        /\ withdrawals[id].retryable
        /\ withdrawals[id].balance_wait_started_at > 0
        /\ now - withdrawals[id].balance_wait_started_at >= BALANCE_TIMEOUT
        /\ balance <= withdrawals[id].baseline_balance_sats

AboveBaseline(id) == balance > Max(withdrawals[id].baseline_balance_sats, 0)

C26_Step ==
    \A id \in WdIds :
        Waiting(id) /\ AboveBaseline(id) => ~TimedOut(withdrawals'[id])

\* C26: a check of a withdrawal in WAITING_BALANCE_UPDATE made while the
\* vanilla spendable balance is above baseline_balance_sats never fails it
\* with BALANCE_UPDATE_TIMEOUT, however long the wait has lasted.
C26_BalanceBeforeTimeout == [][C26_Step]_vars

\* ------------------------------------------------------------------------
\* The withdrawal service with a node that answers and channels that close
\* ------------------------------------------------------------------------
\* CLOSING_CHANNELS: close_channel returns while the channel is still
\* listed with its open status; the node starts the close afterwards
CloseCallAccepted(t) ==
    /\ tasks[t].pc = "close_call"
    /\ chans[CurrentChannel(t)] = "Open"
    /\ tasks' = [tasks EXCEPT ![t].pc = "close_refresh"]
    /\ UNCHANGED <<now, psbt_to_withdraw_map, withdrawals, chans, balance,
                   returned, repeated, RestW>>

\* the node: the close of an open channel begins
NodeClosingBegins(c) ==
    /\ chans[c] = "Open"
    /\ chans' = [chans EXCEPT ![c] = "Closing"]
    /\ UNCHANGED <<now, psbt_to_withdraw_map, withdrawals, tasks, balance,
                   returned, repeated, RestW>>

NextLife ==
    \/ NextWait
    \/ \E t \in TaskSlots : CloseCallAccepted(t)
    \/ \E c \in Channels : NodeClosingBegins(c)

\* every task is run, time passes, a channel being closed closes
SpecLife ==
    /\ Init
    /\ [][NextLife]_vars
    /\ \A t \in TaskSlots : WF_vars(TaskStep(t) \/ CloseCallAccepted(t))
    /\ WF_vars(TickWait)
    /\ \A c \in Channels : WF_vars(NodeClosingBegins(c))
    /\ \A c \in Channels : WF_vars(NodeChannelSettles(c))

\* C27: every withdrawal created by withdraw_end eventually is CONFIRMED or
\* FAILED, given that the node answers every call and channels close.
C27_WithdrawalTerminates ==
    \A id \in WdIds :
        withdrawals[id] # NoWd ~> withdrawals[id].status \in Terminal

\* a withdrawal that has left WAITING_CLOSE_CONFIRMATIONS does end
PastCloseTerminates ==
    \A id \in WdIds :
        (withdrawals[id] # NoWd /\ withdrawals[id].status \in
            {"WAITING_BALANCE_UPDATE", "SWEEPING_OUTPUTS", "BROADCASTED"})
        ~> withdrawals[id].status \in Terminal

\* ------------------------------------------------------------------------
\* process_withdrawal up to the end of the REQUESTED block, for BTC and
\* asset withdrawals over channels of every kind
\* ------------------------------------------------------------------------
ReqBodies == { b \in AllBodies : b.deduct_fee /\ b.amount_sats # SmallSats }

\* the node: a channel of the given kind is opened
NodeChannelOpened(c, kind) ==
    /\ chans[c] = "Absent"
    /\ chans' = [chans EXCEPT ![c] = "Open"]
    /\ chanAttr' = [chanAttr EXCEPT ![c] = kind]
    /\ UNCHANGED <<now, psbt_to_withdraw_map, withdrawals, tasks, balance,
                   returned, repeated, jobVars, watchers, lockVars, supVars, wt,
                   nodeVars, lastRecovery, answered, ww>>

\* the node: an on-chain payment to the wallet becomes spendable
NodeReceives(amount) ==
    /\ balance + amount <= MaxBalance
    /\ balance' = balance + amount
    /\ UNCHANGED <<now, psbt_to_withdraw_map, withdrawals, tasks, chans,
                   returned, repeated, RestW>>

NextReq ==
    \/ \E x \in WdWallets, b \in ReqBodies : withdraw_begin(x, b)
    \/ \E x \in WdWallets : withdraw_end(x)
    \/ \E t \in TaskSlots : TaskStart(t)
    \/ \E t \in TaskSlots, ok \in BOOLEAN : ReqBalance(t, ok)
    \/ \E t \in TaskSlots, ok \in BOOLEAN : ReqChannels(t, ok)
    \/ \E c \in Channels, kind \in ChannelKinds : NodeChannelOpened(c, kind)
    \/ NodeReceives(ChannelSats)

SpecReq == Init /\ [][NextReq]_vars

Requested(id) == withdrawals[id] # NoWd /\ withdrawals[id].status = "REQUESTED"

C28_Step ==
    \A id \in WdIds :
        Requested(id) =>
            LET rec == withdrawals[id]
                after == withdrawals'[id]
                expected == find_channels_to_close(rec.asset) IN
            /\ after.baseline_balance_sats # rec.baseline_balance_sats
                  => after.baseline_balance_sats = balance
            /\ after.status \notin {"REQUESTED", "FAILED"} =>
                  /\ after.baseline_balance_sats = rec.baseline_balance_sats
                  /\ rec.baseline_balance_sats # NoneInt
                  /\ after.channel_ids_to_close = expected
                  /\ after.status = IF expected = << >> THEN "SWEEPING_OUTPUTS"
                                    ELSE "CLOSING_CHANNELS"

\* C28: the REQUESTED block stores the vanilla spendable balance as
\* baseline_balance_sats and stores as channel_ids_to_close the listed BTC
\* channels with outbound balance for a BTC withdrawal, the listed channels
\* of the withdrawal's asset with asset outbound amount for an asset
\* withdrawal; the status becomes SWEEPING_OUTPUTS when that list is empty
\* and CLOSING_CHANNELS otherwise.
C28_ChannelsToClose == [][C28_Step]_vars

\* the same for BTC withdrawals alone
BtcRequestStep ==
    \A id \in WdIds :
        Requested(id) /\ withdrawals[id].asset = NoAsset =>
            LET expected == find_channels_to_close(NoAsset) IN
            withdrawals'[id].status \notin {"REQUESTED", "FAILED"} =>
                /\ withdrawals'[id].channel_ids_to_close = expected
                /\ withdrawals'[id].status = IF expected = << >> THEN "SWEEPING_OUTPUTS"
                                             ELSE "CLOSING_CHANNELS"
BtcChannelsToClose == [][BtcRequestStep]_vars

\* ------------------------------------------------------------------------
\* process_withdrawal for every kind of request on a wallet without
\* channels: REQUESTED leads to SWEEPING_OUTPUTS; one request per wallet
\* ------------------------------------------------------------------------
NextSweep ==
    \/ \E x \in WdWallets, b \in AllBodies :
          psbt_to_withdraw_map[x] = NoBody /\ withdraw_begin(x, b)
    \/ \E x \in WdWallets : withdraw_end(x)
    \/ \E t \in TaskSlots : TaskStart(t)
    \/ \E t \in TaskSlots, ok \in BOOLEAN : ReqBalance(t, ok)
    \/ \E t \in TaskSlots, ok \in BOOLEAN : ReqChannels(t, ok)
    \/ \E t \in TaskSlots, ok \in BOOLEAN : SweepBalance(t, ok)
    \/ \E t \in TaskSlots, ok \in BOOLEAN : SweepSend(t, ok)
    \/ \E amount \in {SmallSats, ChannelSats} : NodeReceives(amount)

SpecSweep == Init /\ [][NextSweep]_vars

\* the requested amount, or the balance get_btc_balance reported
SweepBase(rec) ==
    IF rec.amount_sats_requested = NoneInt THEN balance ELSE rec.amount_sats_requested

\* the SWEEPING_OUTPUTS block computes amount and fee, send_btc returns
Computes(t) == tasks[t].pc = "sweep_bal" /\ tasks'[t].pc = "sweep_send"
Sent(t) ==
    /\ tasks[t].pc = "sweep_send"
    /\ withdrawals'[tasks[t].wd].status # "FAILED"
    /\ tasks'[t] # tasks[t]

FeeAndSentStep(t) ==
    /\ Computes(t) =>
          withdrawals'[tasks[t].wd].fee_sats =
              IF Rec(t).deduct_fee_from_amount THEN ESTIMATED_FEE ELSE NoneInt
    /\ Sent(t) => withdrawals'[tasks[t].wd].amount_sats_sent = tasks[t].amount

C22_Step ==
    \A t \in TaskSlots :
        /\ FeeAndSentStep(t)
        /\ Computes(t) =>
              tasks'[t].amount =
                  IF ~Rec(t).deduct_fee_from_amount THEN SweepBase(Rec(t))
                  ELSE IF SweepBase(Rec(t)) >= ESTIMATED_FEE
                       THEN SweepBase(Rec(t)) - ESTIMATED_FEE
                       ELSE 0

\* C22: the amount passed to send_btc, and stored as amount_sats_sent when
\* send_btc returns, is the requested amount, or the vanilla spendable
\* balance when no amount was requested; when deduct_fee_from_amount is set
\* the estimated fee of 1000 sats is taken off it, down to 0 at the lowest,
\* and fee_sats = 1000 is recorded, otherwise fee_sats is None.
C22_SweepAmount == [][C22_Step]_vars

\* a request of less than the estimated fee with fee deduction: send_btc
\* is about to be called with amount 0
C22_Witness ==
    \E t \in TaskSlots :
        /\ tasks[t].pc = "sweep_send"
        /\ tasks[t].amount = 0
        /\ Rec(t).amount_sats_requested = SmallSats
        /\ Rec(t).deduct_fee_from_amount
        /\ Rec(t).fee_sats = ESTIMATED_FEE

C22_OriginalStep ==
    \A t \in TaskSlots :
        /\ FeeAndSentStep(t)
        /\ Computes(t) =>
              tasks'[t].amount =
                  IF Rec(t).deduct_fee_from_amount
                  THEN SweepBase(Rec(t)) - ESTIMATED_FEE
                  ELSE SweepBase(Rec(t))

\* the statement without the lower limit: with fee deduction the amount is
\* always the base amount minus 1000
C22_Original == [][C22_OriginalStep]_vars

\* ------------------------------------------------------------------------
\* Claim on the wallet lock around refreshes and withdrawal steps
\* ------------------------------------------------------------------------
\* the awaits of process_withdrawal at which close_channel, refresh_transfers
\* or send_btc is in flight
DestructivePcs == {"close_call", "close_refresh", "wbu_refresh", "sweep_send"}

\* a row of wallet_locks for x that has not expired
LockRowLive(x) == locks[x] # NoLock /\ locks[x] >= now

\* C23: whenever a worker has a refresh_wallet call in flight it holds the
\* lock of that wallet, and whenever process_withdrawal has a close_channel,
\* refresh_transfers or send_btc call in flight the lock of the withdrawing
\* wallet is held.
C23_LockAroundCalls ==
    /\ \A p \in Workers :
          InFlight(p) => LockRowLive(lk[p].wallet) /\ p \in liveGrant[lk[p].wallet]
    /\ \A t \in TaskSlots :
          tasks[t].pc \in DestructivePcs => \E x \in WdWallets : LockRowLive(x)

\* ------------------------------------------------------------------------
\* src/queue/watchers.py called in any order: create_watcher and
\* update_watcher_status
\* ------------------------------------------------------------------------
\* the statuses a finished watch_transfer writes
WatcherStatuses == {"settled", "expired"}

\* expiration_seconds, or the WATCHER_TTL default when it is None
ExpirationSeconds(expiration_seconds) ==
    IF expiration_seconds = NoneInt THEN WATCHER_TTL ELSE expiration_seconds

CreateWatcherCall(key, asset_id, expiration_seconds) ==
    /\ watchers' = create_watcher(watchers, key[1], key[2], asset_id,
                                  ExpirationSeconds(expiration_seconds))
    /\ UNCHANGED <<wt, RestT>>

UpdateWatcherCall(key, status, refresh_count) ==
    /\ watchers' = update_watcher_status(watchers, key, status, refresh_count)
    /\ UNCHANGED <<wt, RestT>>

NextUpsert ==
    \/ Tick
    \/ \E key \in WatcherKeys, a \in {NoAsset, "a1"}, e \in {NoneInt, INVOICE_TTL} :
          CreateWatcherCall(key, a, e)
    \/ \E key \in WatcherKeys, st \in WatcherStatuses, n \in 1..MaxRefresh :
          UpdateWatcherCall(key, st, n)

SpecUpsert == Init /\ [][NextUpsert]_vars

\* a step that wrote expires_at or asset_id of the row of key: only
\* create_watcher writes them
Created(key) ==
    /\ watchers'[key] # NoRow
    /\ \/ watchers[key] = NoRow
       \/ /\ watchers[key] # NoRow
          /\ \/ watchers'[key].expires_at # watchers[key].expires_at
             \/ watchers'[key].asset_id # watchers[key].asset_id

C24_Step ==
    \A key \in WatcherKeys :
        Created(key) =>
            /\ watchers'[key].status = "watching"
            /\ watchers'[key].refresh_count = 0
            /\ watchers'[key].expires_at \in {now + INVOICE_TTL, now + WATCHER_TTL}
            /\ \A other \in WatcherKeys \ {key} : watchers'[other] = watchers[other]

\* C24: the table holds one row per (xpub_van, recipient_id) at most, and a
\* create_watcher call for a key, with or without a row, leaves that row
\* 'watching' with refresh_count 0 and expires_at = now + TTL and changes
\* no row of another key.
C24_CreateIsUpsert ==
    /\ [](DOMAIN watchers = WatcherKeys)
    /\ [][C24_Step]_vars

\* a row that had been created earlier and counted refreshes was created
\* again: it expires later than a row created at time 0 can, while the row
\* of the other wallet kept its terminal status and its count
C24_Witness ==
    \E key, other \in WatcherKeys :
        /\ key # other
        /\ watchers[key] # NoRow /\ watchers[other] # NoRow
        /\ now > 0
        /\ watchers[key] = [status |-> "watching", refresh_count |-> 0,
                            asset_id |-> "a1", expires_at |-> now + WATCHER_TTL]
        /\ watchers[other].status = "settled"
        /\ watchers[other].refresh_count = MaxRefresh

\* ------------------------------------------------------------------------
\* Claim on the time to live of a created watcher row
\* ------------------------------------------------------------------------
\* the time to live that goes with the asset_id of a row
TtlFor(asset_id) == IF asset_id = NoAsset THEN INVOICE_TTL ELSE WATCHER_TTL

C25_Step ==
    \A key \in WatcherKeys :
        Created(key) => watchers'[key].expires_at = now + TtlFor(watchers'[key].asset_id)

\* C25: every step that creates a watcher row gives it the short time to
\* live (INVOICE_WATCHER_EXPIRATION) when the row's asset_id is null and the
\* long one (WATCHER_TTL) when it is known, whichever of process_job,
\* process_wallet_unified and ensure_watcher_exists creates it.
C25_TtlByAsset == [][C25_Step]_vars

\* the rows that process_job's invoice_created case creates
InvoiceCreateStep ==
    \A w \in Workers : \A key \in WatcherKeys :
        /\ wpc[w] = "holding" /\ wpc'[w] = "idle"
        /\ watchers'[key] # watchers[key]
        => watchers'[key] = [status |-> "watching", refresh_count |-> 0,
                             asset_id |-> NoAsset, expires_at |-> now + INVOICE_TTL]

\* the invoice_created case creates its row with the short time to live
InvoiceRowShort == [][InvoiceCreateStep]_vars

\* ------------------------------------------------------------------------
\* process_wallet_unified after a successful refresh: the loop over the
\* assets and their transfers (workers/processors/unified_handler.py)
\* ------------------------------------------------------------------------
\* _is_transfer_completed, _is_transfer_expired: the handler's own copies
\* of the two predicates of transfer_utils.py
_is_transfer_completed(transfer) ==
    IF IsInt(transfer.status)
    THEN transfer.status[2] \in {SETTLED, FAILED}
    ELSE Upper(transfer.status[2]) \in {"SETTLED", "FAILED"}

_is_transfer_expired(transfer) ==
    IF transfer.expiration = 0 THEN FALSE
    ELSE IF IsInt(transfer.kind) /\ transfer.kind[2] # RECEIVE_BLIND THEN FALSE
    ELSE LET kind == IF IsInt(transfer.kind) THEN "RECEIVE_BLIND"
                     ELSE Upper(transfer.kind[2]) IN
         kind = "RECEIVE_BLIND" /\ transfer.expiration < now

_should_watch_transfer(transfer) ==
    ~_is_transfer_completed(transfer) /\ ~_is_transfer_expired(transfer)

\* api_client.list_assets: the assets of the wallet
list_assets(x) == Assets

\* api_client.list_transfers(job, asset_id): the transfers of the wallet
\* that carry the asset
list_transfers(x, asset_id) ==
    { key \in WatcherKeys : /\ key[1] = x
                            /\ transfers[key] # NoTransfer
                            /\ transfers[key].asset_id = asset_id }

\* the refresh_watchers table after the loop: for each asset of
\* list_assets and each transfer listed under it that should be watched,
\* get_watcher_status and, when it returns nothing, create_watcher with the
\* asset_id and no expiration_seconds; a create_watcher that raises is
\* logged. An expired transfer is logged and nothing else; so is a
\* completed one.
WatchersAfterListing(tbl, x, lookup_ok, create_ok) ==
    [key \in WatcherKeys |->
        IF /\ \E asset_id \in list_assets(x) : key \in list_transfers(x, asset_id)
           /\ _should_watch_transfer(TransferJson(transfers[key]))
           /\ (IF lookup_ok THEN get_watcher_status(tbl, key[1], key[2]) ELSE NoRow) = NoRow
           /\ create_ok
        THEN create_watcher(tbl, key[1], key[2], transfers[key].asset_id,
                            WATCHER_TTL)[key]
        ELSE tbl[key]]

\* process_wallet_unified: refresh_wallet succeeded, the assets and their
\* transfers are listed and the watchers created (shutdown_flag() false
\* throughout); return through the finally block. PuRefreshSucceeds is
\* this step for a wallet without transfers.
PuListsTransfers(p, lookup_ok, create_ok) ==
    /\ lk[p].pc = "pu_refresh"
    /\ lk' = [lk EXCEPT ![p].pc = "pu_release"]
    /\ watchers' = WatchersAfterListing(watchers, lk[p].wallet, lookup_ok, create_ok)
    /\ UNCHANGED <<now, jobVars, locks, liveGrant, RestL>>

\* the node: /wallet/blindreceive with the asset_id of the invoice given
NodeInvoiceForAsset(key, enc) ==
    /\ transfers[key] = NoTransfer
    /\ transfers' = [transfers EXCEPT ![key] =
          [recipient_id |-> key[2], enc |-> enc,
           status |-> WAITING_COUNTERPARTY, kind |-> RECEIVE_BLIND,
           expiration |-> now + TransferValidity,
           batch_transfer_idx |-> BatchIdx,
           asset_id |-> "a1"]]
    /\ UNCHANGED <<now, watchers, wt, failCalls, RestK>>

NextUnified ==
    \/ TickWatch
    \/ \E x \in ProcWallets, k \in JobKinds : enqueue_refresh_job(x, k)
    \/ \E w \in ProcWorkers, x \in ProcWallets : DequeueSelect(w, x)
    \/ \E w \in ProcWorkers : DequeueCommit(w)
    \/ \E w \in ProcWorkers, l \in BOOLEAN, c \in BOOLEAN : process_job_invoice(w, l, c)
    \/ \E w \in ProcWorkers : PuStart(w)
    \/ \E w \in ProcWorkers : AcquireInsert(w)
    \/ \E w \in ProcWorkers, l \in BOOLEAN, c \in BOOLEAN : PuListsTransfers(w, l, c)
    \/ \E w \in ProcWorkers : PuRefreshFails(w)
    \/ \E w \in ProcWorkers : PuRetry(w)
    \/ \E w \in ProcWorkers, ok \in BOOLEAN : ReleaseLock(w, ok)
    \/ \E w \in ProcWorkers : PuReturned(w)
    \/ \E key \in NodeKeys, enc \in Encodings, kind \in {RECEIVE_BLIND, SEND} :
          NodeTransferCreated(key, enc, kind)
    \/ \E key \in NodeKeys, enc \in Encodings : NodeInvoiceForAsset(key, enc)
    \/ \E key \in NodeKeys : NodeTransferAdvances(key)
    \/ \E key \in NodeKeys : NodeTransferFails(key)

SpecUnified == Init /\ [][NextUnified]_vars

\* the step of process_wallet_unified that lists the transfers
ListsTransfers(p) ==
    /\ lk[p].pc = "pu_refresh" /\ lk'[p].pc = "pu_release"
    /\ lk'[p].attempts = lk[p].attempts

\* the transfer of key is one a watcher is due for
ToBeWatched(key) ==
    transfers[key] # NoTransfer /\ ~NodeFinal(key) /\ ~NodeExpired(key)

C29_Step ==
    \A p \in ProcWorkers : \A key \in WatcherKeys :
        ListsTransfers(p) /\ key[1] = lk[p].wallet =>
            /\ ToBeWatched(key) => watchers'[key] # NoRow
            /\ ~ToBeWatched(key) => watchers'[key] = watchers[key]
            /\ watchers[key] # NoRow => watchers'[key] = watchers[key]

\* C29: when the unified handler has refreshed the wallet and gone through
\* its transfers, every transfer of the wallet with a recipient_id that is
\* neither Settled/Failed nor expired has a watcher row, whether the node
\* lists it without asset_id or under an asset; no row is created for a
\* terminal or expired transfer, and a row that existed is unchanged.
C29_WatcherForEveryTransfer == [][C29_Step]_vars

C29_ListedStep ==
    \A p \in ProcWorkers : \A key \in WatcherKeys :
        /\ ListsTransfers(p) /\ key[1] = lk[p].wallet
        /\ transfers[key] # NoTransfer /\ transfers[key].asset_id # NoAsset
        /\ transfers[key].enc # "camel"
        /\ watchers[key] = NoRow
        => IF ToBeWatched(key)
           THEN watchers'[key] \in {NoRow, [status |-> "watching", refresh_count |-> 0,
                                            asset_id |-> transfers[key].asset_id,
                                            expires_at |-> now + WATCHER_TTL]}
           ELSE watchers'[key] = NoRow

\* for a transfer listed under an asset the handler creates the row when it
\* is due and only then (the create_watcher call may fail)
ListedTransferWatched == [][C29_ListedStep]_vars

\* the transfers the loop of p goes through
Enumerated(p) ==
    UNION { list_transfers(lk[p].wallet, asset_id) : asset_id \in list_assets(lk[p].wallet) }

C30_Step ==
    \A p \in ProcWorkers : \A key \in WatcherKeys :
        /\ ListsTransfers(p)
        /\ key \in Enumerated(p)
        /\ _is_transfer_expired(TransferJson(transfers[key]))
        /\ can_cancel_transfer(TransferJson(transfers[key]))
        => Len(failCalls'[key]) > Len(failCalls[key])

\* C30: when the unified handler goes through the transfers of a wallet,
\* it calls fail_transfers(batch_transfer_idx) on the node for every
\* expired transfer among them that can_cancel_transfer accepts.
C30_ExpiredTransfersFailed == [][C30_Step]_vars

\* ------------------------------------------------------------------------
\* can_cancel_transfer over the transfers and clock values it can be given
\* (workers/processors/transfer_utils.py)
\* ------------------------------------------------------------------------
\* clock values around the expiration and around expiration +
\* RGB_INVOICE_DURATION_SECONDS
CancelTimes ==
    { 0, TransferValidity, TransferValidity + 1,
      TransferValidity + RGB_INVOICE_DURATION_SECONDS,
      TransferValidity + RGB_INVOICE_DURATION_SECONDS + 1 }

\* the transfers of the node: every status and kind in every encoding,
\* with and without an expiration
CancelTransfers ==
    [recipient_id : Recipients, enc : Encodings,
     status : 0..(Len(StatusNames) - 1), kind : 0..(Len(KindNames) - 1),
     expiration : {0, TransferValidity},
     batch_transfer_idx : {BatchIdx}, asset_id : {NoAsset}]

\* the node holds the transfer tr for key when the clock reads t
CancelInput(key, tr, t) ==
    /\ tr.recipient_id = key[2]
    /\ transfers' = [transfers EXCEPT ![key] = tr]
    /\ now' = t
    /\ UNCHANGED <<watchers, wt, failCalls, RestK>>

NextCancel ==
    \E key \in NodeKeys, tr \in CancelTransfers, t \in CancelTimes : CancelInput(key, tr, t)

SpecCancel == Init /\ [][NextCancel]_vars

\* the transfer is waiting for the counterparty, its expiration is set and
\* past, and it is a blind receive or the invoice duration is over too
Cancellable(tr) ==
    /\ tr.status = WAITING_COUNTERPARTY
    /\ tr.expiration # 0
    /\ tr.expiration < now
    /\ \/ tr.kind = RECEIVE_BLIND
       \/ tr.expiration + RGB_INVOICE_DURATION_SECONDS < now

\* C35: can_cancel_transfer(transfer) is true exactly when the status is
\* WaitingCounterparty, the expiration is set and strictly in the past, and
\* the kind is ReceiveBlind or expiration + RGB_INVOICE_DURATION_SECONDS is
\* in the past, for every status, kind, expiration and clock value.
C35_CanCancelExact ==
    \A key \in NodeKeys :
        transfers[key] # NoTransfer =>
            (can_cancel_transfer(TransferJson(transfers[key])) <=> Cancellable(transfers[key]))

\* the same for the replies that carry the enum value or the member name
CanCancelExactOnNames ==
    \A key \in NodeKeys :
        transfers[key] # NoTransfer /\ transfers[key].enc # "camel" =>
            (can_cancel_transfer(TransferJson(transfers[key])) <=> Cancellable(transfers[key]))

\* ------------------------------------------------------------------------
\* Claim on the owner of a released lock row
\* ------------------------------------------------------------------------
\* the step deletes the wallet_locks row of x
RowDeleted(x) == locks[x] # NoLock /\ locks'[x] = NoLock

\* the step is the release_wallet_lock call of p
Releases(p) == lk[p].pc \in {"wr_release", "pu_release"} /\ lk'[p].pc = "idle"

C37_Step ==
    \A x \in Wallets :
        RowDeleted(x) =>
            \/ Expired(x)
            \/ \E p \in Workers : Releases(p) /\ lk[p].wallet = x /\ p \in liveGrant[x]

\* C37: the wallet_locks row a caller's acquire_wallet_lock inserted is
\* deleted only by the clean-up of expired rows or by the
\* release_wallet_lock call of that caller; a caller whose own row has
\* expired and been replaced does not delete the row of the caller that
\* acquired the lock in the meantime.
C37_ReleaseOwnLockOnly == [][C37_Step]_vars

\* ------------------------------------------------------------------------
\* Claim on the completion of a job handled by process_wallet_unified
\* ------------------------------------------------------------------------
\* the process_wallet_unified call of w took the lock and left its loop
\* after a refresh_wallet call that returned
RefreshedOnce(w) == lk[w].res = "true" /\ lk[w].attempts < MAX_RETRIES

C39_Step ==
    \A w \in ProcWorkers :
        /\ wpc[w] = "holding" /\ wpc'[w] = "idle"
        /\ ~IsInvoiceCase(jobs[wjob[w]])
        /\ jobs'[wjob[w]].status = "completed"
        => RefreshedOnce(w)

\* C39: a job other than the invoice_created case is marked completed only
\* when its process_wallet_unified call refreshed the wallet successfully;
\* when acquire_wallet_lock returned false the job does not end completed.
C39_CompletedOnlyAfterRefresh == [][C39_Step]_vars

\* every job of this kind ends completed, whatever process_wallet_unified did
UnifiedAlwaysCompletes ==
    [][\A w \in ProcWorkers :
          wpc[w] = "holding" /\ wpc'[w] = "idle" /\ ~IsInvoiceCase(jobs[wjob[w]])
              => jobs'[wjob[w]].status = "completed"]_vars

\* ------------------------------------------------------------------------
\* Two wallets submit withdrawals to the one service process
\* (bitcoinl1/routes.py, withdrawal_storage.py)
\* ------------------------------------------------------------------------
NextShare ==
    \/ \E x \in AllWdWallets, b \in Bodies \cup { bb \in MoreBodies : ~bb.deduct_fee } :
          psbt_to_withdraw_map[x] = NoBody /\ withdraw_begin(x, b)
    \/ \E x \in AllWdWallets : withdraw_end(x)
    \/ \E t \in TaskSlots : TaskStart(t)
    \/ \E t \in TaskSlots, ok \in BOOLEAN : ReqBalance(t, ok)
    \/ \E t \in TaskSlots, ok \in BOOLEAN : ReqChannels(t, ok)
    \/ \E t \in TaskSlots, ok \in BOOLEAN : SweepBalance(t, ok)
    \/ \E t \in TaskSlots, ok \in BOOLEAN : SweepSend(t, ok)
    \/ NodeReceives(ChannelSats)

SpecShare == Init /\ [][NextShare]_vars

\* C40: no withdrawal is returned by withdraw_end to two different wallets:
\* two wallets that submit the same address, amount and fee settings each
\* get a withdrawal of their own.
C40_NoSharedWithdrawal ==
    \A id \in WdIds : Cardinality(answered[id]) <= 1

\* two wallets that submitted different requests have different withdrawals
DifferentRequestsApart ==
    \A id \in WdIds : \A x, y \in answered[id] :
        psbt_to_withdraw_map[x] = psbt_to_withdraw_map[y]

\* ------------------------------------------------------------------------
\* process_withdrawal invoked while an invocation of the same withdrawal is
\* suspended at an await (bitcoinl1/withdrawal_orchestrator.py)
\* ------------------------------------------------------------------------
\* process_withdrawal(id) is called for a stored withdrawal, whether or not
\* an earlier invocation is still running or a retry is scheduled
InvokeAgain(id) ==
    /\ withdrawals[id] # NoWd
    /\ FreeSlots # {}
    /\ tasks' = [tasks EXCEPT ![CHOOSE t \in FreeSlots : TRUE] = NewTask(id, "start")]
    /\ UNCHANGED <<now, psbt_to_withdraw_map, withdrawals, chans, balance,
                   returned, repeated, RestW>>

NextOverlap ==
    \/ \E x \in WdWallets, b \in Bodies :
          psbt_to_withdraw_map[x] = NoBody /\ withdraw_begin(x, b)
    \/ \E x \in WdWallets : withdraw_end(x)
    \/ \E id \in WdIds : InvokeAgain(id)
    \/ \E t \in TaskSlots : TaskStart(t)
    \/ \E t \in TaskSlots, ok \in BOOLEAN : ReqBalance(t, ok)
    \/ \E t \in TaskSlots, ok \in BOOLEAN : ReqChannels(t, ok)
    \/ \E t \in TaskSlots, ok \in BOOLEAN : SweepBalance(t, ok)
    \/ \E t \in TaskSlots, ok \in BOOLEAN : SweepSend(t, ok)
    \/ \E amount \in {ChannelSats, RequestedSats} : NodeReceives(amount)

SpecOverlap == Init /\ [][NextOverlap]_vars

\* the invocation t issues its send_btc call
CallsSend(t) == tasks[t].pc # "sweep_send" /\ tasks'[t].pc = "sweep_send"

\* a send_btc call for the withdrawal is in flight or has been answered
SendIssued(id) ==
    \/ \E u \in TasksOf(id) : tasks[u].pc = "sweep_send"
    \/ withdrawals[id].sweep_txid # ""

C38_Step ==
    \A t \in TaskSlots : CallsSend(t) => ~SendIssued(tasks'[t].wd)

\* C38: over all invocations of process_withdrawal for one withdrawal,
\* invocations that overlap at their awaits included, send_btc is called
\* once at most.
C38_SendAtMostOnce == [][C38_Step]_vars

\* ------------------------------------------------------------------------
\* Claims on the refresh of a watcher pass
\* ------------------------------------------------------------------------
\* the pass of p called refresher.refresh(), the lock was acquired and
\* refresh_wallet returned a map that reports no failure of the transfer
RefreshReturned(p) == Passes(p) /\ wt'[p].refreshed \in {"empty", "ok"}
\* the lock was busy, or refresh_wallet raised
RefreshSkipped(p) == Passes(p) /\ wt'[p].refreshed \in {"busy", "raised"}

\* C32: a pass of watch_transfer in which the wallet lock is acquired and
\* refresh_wallet returns - whatever the map holds, the empty map too -
\* adds exactly one to refresh_count, and the row it writes carries
\* 'watching' and the new count; a pass in which the lock is busy or the
\* refresh raises leaves refresh_count as it was.
C32_Step ==
    \A p \in WatchWorkers :
       /\ RefreshReturned(p) =>
             /\ wt'[p].refresh_count = wt[p].refresh_count + 1
             /\ LET key == wt[p].key IN
                watchers[key] # NoRow /\ watchers'[key] # NoRow
                /\ watchers'[key].refresh_count # watchers[key].refresh_count
                => /\ watchers'[key].status = "watching"
                   /\ watchers'[key].refresh_count = wt'[p].refresh_count
       /\ RefreshSkipped(p) => wt'[p].refresh_count = wt[p].refresh_count
C32_CountPerRefresh == [][C32_Step]_vars

\* what the code does: `if refresh_response:` is taken for a non-empty map
\* only; the count grows by one with it and is kept in every other pass
CountPerNonEmptyStep ==
    \A p \in WatchWorkers :
       Passes(p) =>
          /\ wt'[p].refreshed \in {"ok", "failure"}
                => wt'[p].refresh_count = wt[p].refresh_count + 1
          /\ wt'[p].refreshed = "ok" /\ wt'[p].pc = "poll"
             /\ watchers[wt[p].key] # NoRow
             /\ watchers'[wt[p].key].refresh_count # watchers[wt[p].key].refresh_count
                => /\ watchers'[wt[p].key].status = "watching"
                   /\ watchers'[wt[p].key].refresh_count = wt'[p].refresh_count
          /\ wt'[p].refreshed \in {"no", "busy", "raised", "empty"}
                => wt'[p].refresh_count = wt[p].refresh_count
CountPerNonEmptyRefresh == [][CountPerNonEmptyStep]_vars

\* ------------------------------------------------------------------------
\* workers/wallet_worker.py: the main loop of the worker of one wallet
\* ------------------------------------------------------------------------
WALLET_WORKER_IDLE_TIMEOUT == 60
\* the worker process and its --wallet argument
LoopWorker == "p1"
LoopWallet == "w1"
\* what the main loop leaves alone
LoopRest == <<lockVars, supVars, wdVars, lastRecovery, chanAttr, answered>>

\* mutant: the idle check without `if not has_work`
IdleTimedOut_AnyIteration(has_work, idle_time) ==
    idle_time >= WALLET_WORKER_IDLE_TIMEOUT

\* `if not has_work:` idle_time = time.time() - last_work_time,
\* `if idle_time >= WALLET_WORKER_IDLE_TIMEOUT: break`
IdleTimedOut(has_work, idle_time) ==
    ~has_work /\ idle_time >= WALLET_WORKER_IDLE_TIMEOUT

\* get_active_watchers_for_wallet: the rows of the wallet with status
\* 'watching' and expires_at in the future, in created_at order
ActiveWatchersForWallet(x) ==
    LET key == <<x, "r1">> IN
    IF ActiveWatcher(watchers[key])
    THEN << [key |-> key, asset_id |-> watchers[key].asset_id] >>
    ELSE << >>

\* the process starts: register_signal_handlers, last_work_time = time.time()
MainStart ==
    /\ ww.pc = "off"
    /\ wpc[LoopWorker] = "idle" /\ wt[LoopWorker].pc = "idle"
    /\ ww' = [WwOff EXCEPT !.pc = "while", !.last_work_time = now]
    /\ UNCHANGED <<now, jobVars, watchers, wt, nodeVars, LoopRest>>

\* signal_handler: SIGINT or SIGTERM sets the flag of the process
signal_handler ==
    /\ ww.pc \notin {"off", "stopped"}
    /\ ~ww.shutdown
    /\ ww' = [ww EXCEPT !.shutdown = TRUE]
    /\ UNCHANGED <<now, jobVars, watchers, wt, nodeVars, LoopRest>>

\* `while not get_shutdown_flag():` and has_work = False
MainWhile ==
    /\ ww.pc = "while"
    /\ ww' = IF ww.shutdown THEN [ww EXCEPT !.pc = "stopped"]
             ELSE [ww EXCEPT !.pc = "drain", !.has_work = FALSE,
                             !.dequeued = FALSE, !.served = FALSE]
    /\ UNCHANGED <<now, jobVars, watchers, wt, nodeVars, LoopRest>>

\* the inner loop: the flag ends it; dequeue_job_for_wallet returns the
\* oldest pending job of the wallet, set to 'processing', or None (a
\* failing query returns None as an empty table does)
MainDequeue ==
    /\ ww.pc = "drain"
    /\ IF ww.shutdown \/ DequeueCandidates(LoopWallet) = {}
       THEN /\ ww' = [ww EXCEPT !.pc = "serve"]
            /\ UNCHANGED jobVars
       ELSE LET i == Oldest(DequeueCandidates(LoopWallet)) IN
            /\ SetStatus(i, "processing")
            /\ wjob' = [wjob EXCEPT ![LoopWorker] = i]
            /\ wpc' = [wpc EXCEPT ![LoopWorker] = "holding"]
            /\ ww' = [ww EXCEPT !.pc = "job", !.has_work = TRUE,
                                !.last_work_time = now, !.dequeued = TRUE]
    /\ UNCHANGED <<now, watchers, wt, nodeVars, LoopRest>>

\* process_job(job, get_shutdown_flag) has returned
MainJobReturned ==
    /\ ww.pc = "job"
    /\ wpc[LoopWorker] = "idle"
    /\ ww' = [ww EXCEPT !.pc = "drain"]
    /\ UNCHANGED <<now, jobVars, watchers, wt, nodeVars, LoopRest>>

\* `if not get_shutdown_flag():` process_watchers_for_wallet reads the
\* active watchers of the wallet; without one it returns 0
MainServe ==
    /\ ww.pc = "serve"
    /\ ww' = IF ww.shutdown \/ ActiveWatchersForWallet(LoopWallet) = << >>
             THEN [ww EXCEPT !.pc = "idle_check"]
             ELSE [ww EXCEPT !.pc = "for", !.processed = 0,
                             !.todo = ActiveWatchersForWallet(LoopWallet)]
    /\ UNCHANGED <<now, jobVars, watchers, wt, nodeVars, LoopRest>>

\* `for watcher in watchers:` the flag breaks the loop; else watch_transfer
\* is called with the row; after the loop `if processed > 0:` sets
\* has_work and last_work_time
MainFor ==
    /\ ww.pc = "for"
    /\ wt[LoopWorker].pc = "idle"
    /\ IF ww.todo = << >> \/ ww.shutdown
       THEN /\ ww' = [ww EXCEPT !.pc = "idle_check", !.todo = << >>,
                        !.has_work = @ \/ ww.processed > 0,
                        !.last_work_time = IF ww.processed > 0 THEN now ELSE @]
            /\ UNCHANGED wt
       ELSE /\ wt' = [wt EXCEPT ![LoopWorker] =
                        [pc |-> "ensure", key |-> Head(ww.todo).key,
                         asset_id |-> Head(ww.todo).asset_id,
                         refresh_count |-> 0, transfer |-> NoTransfer,
                         refreshed |-> "no"]]
            /\ ww' = [ww EXCEPT !.pc = "watching", !.todo = Tail(@),
                                !.served = TRUE]
    /\ UNCHANGED <<now, jobVars, watchers, nodeVars, LoopRest>>

\* watch_transfer, `while not shutdown_flag():` is passed and
\* monitor.get_transfer_status() sends its list_transfers request
WtCallIssued(p) ==
    /\ wt[p].pc = "poll"
    /\ wt' = [wt EXCEPT ![p].pc = "status"]
    /\ UNCHANGED <<watchers, RestT>>

\* watch_transfer has returned: processed += 1
MainWatchReturned ==
    /\ ww.pc = "watching"
    /\ wt[LoopWorker].pc = "idle"
    /\ ww' = [ww EXCEPT !.pc = "for", !.processed = @ + 1]
    /\ UNCHANGED <<now, jobVars, watchers, wt, nodeVars, LoopRest>>

\* the idle check at the end of the iteration: break, or sleep
\* WALLET_WORKER_POLL_INTERVAL and go round
MainIdleCheck ==
    /\ ww.pc = "idle_check"
    /\ ww' = IF IdleTimedOut(ww.has_work, now - ww.last_work_time)
             THEN [ww EXCEPT !.pc = "stopped"]
             ELSE [ww EXCEPT !.pc = "while"]
    /\ UNCHANGED <<now, jobVars, watchers, wt, nodeVars, LoopRest>>

\* the steps of the worker process: the main loop, process_job and
\* watch_transfer under it
MainStep ==
    \/ MainStart
    \/ MainWhile
    \/ MainDequeue
    \/ ww.pc = "job" /\ \E c \in BOOLEAN : process_job_invoice(LoopWorker, TRUE, c)
    \/ ww.pc = "job" /\ process_job_unified(LoopWorker)
    \/ MainJobReturned
    \/ MainServe
    \/ MainFor
    \/ ww.pc = "watching" /\ WtEnsure(LoopWorker, TRUE, TRUE)
    \/ ww.pc = "watching" /\ ~ww.shutdown /\ WtCallIssued(LoopWorker)
    \/ ww.pc = "watching" /\ ww.shutdown /\ WtShutdown(LoopWorker)
    \/ ww.pc = "watching" /\ \E r \in RefreshReplies :
                                 WtPass(LoopWorker, "status", TRUE, TRUE, TRUE, r, TRUE)
    \/ ww.pc = "watching" /\ WtStop(LoopWorker, TRUE)
    \/ MainWatchReturned
    \/ MainIdleCheck

\* the transfers the node creates here: valid until before the last tick
LoopTransfer(key, enc, kind) ==
    /\ now + TransferValidity < MaxWatchTime
    /\ NodeTransferCreated(key, enc, kind)

NextLoop ==
    \/ MainStep
    \/ signal_handler
    \/ TickWatch
    \/ \E k \in JobKinds : enqueue_refresh_job(LoopWallet, k)
    \/ \E kind \in {RECEIVE_BLIND, SEND} :
          LoopTransfer(<<LoopWallet, "r1">>, "int", kind)
    \/ NodeTransferAdvances(<<LoopWallet, "r1">>)
    \/ NodeTransferFails(<<LoopWallet, "r1">>)

SpecLoop == Init /\ [][NextLoop]_vars
\* the process runs as long as it has a step to take, and time passes
SpecLoopFair == SpecLoop /\ WF_vars(MainStep) /\ WF_vars(TickWatch)

\* ------------------------------------------------------------------------
\* Claims on the main loop of the wallet worker
\* ------------------------------------------------------------------------
\* the worker process runs and has not been told to shut down
LoopRuns == ww.pc \notin {"off", "stopped"} /\ ~ww.shutdown
JobPending(i) == i <= Len(jobs) /\ jobs[i].status = "pending"
JobFinished(i) == i <= Len(jobs) /\ jobs[i].status \in {"completed", "failed"}

\* C34: a job of the wallet that is pending while the worker of the wallet
\* runs is eventually dequeued and brought to 'completed' or 'failed'
\* (unless the worker is told to shut down or ends first): it does not
\* wait forever behind the watch_transfer calls of the watcher step.
C34_PendingJobFinishes ==
    \A i \in 1..MaxJobs :
       (JobPending(i) /\ LoopRuns) ~> (JobFinished(i) \/ ~LoopRuns)

\* a job that is pending while the worker is in its inner loop is finished
\* before the worker goes on to the watchers
DrainFinishesJobs ==
    \A i \in 1..MaxJobs :
       (JobPending(i) /\ LoopRuns /\ ww.pc = "drain")
          ~> (JobFinished(i) \/ ~LoopRuns)

\* the main loop ends in this step, from the `while` test or from the
\* idle check
LoopEnds == ww.pc \notin {"off", "stopped"} /\ ww'.pc = "stopped"
EndsByIdle == ww.pc = "idle_check" /\ ww'.pc = "stopped"
\* the iteration found no job to dequeue and no watcher to serve, and
\* WALLET_WORKER_IDLE_TIMEOUT seconds have passed since the last work
IdleCondition ==
    /\ ~ww.dequeued /\ ~ww.served
    /\ now - ww.last_work_time >= WALLET_WORKER_IDLE_TIMEOUT

\* C36: the main loop of a wallet worker ends only when the shutdown flag
\* is set or when the iteration found no job and no watcher and at least
\* WALLET_WORKER_IDLE_TIMEOUT seconds have passed since the last work; in
\* an iteration that ends under that condition the loop does end; it does
\* not end by the idle check in an iteration that processed a job or a
\* watcher.
C36_Step ==
    /\ LoopEnds => ww.shutdown \/ IdleCondition
    /\ ww.pc = "idle_check" /\ ww'.pc # "idle_check" /\ IdleCondition
          => ww'.pc = "stopped"
    /\ EndsByIdle => ~ww.dequeued /\ ~ww.served
C36_LoopEnd == [][C36_Step]_vars

\* the worker has processed a job and served a watcher, and has ended by
\* the idle check of a later iteration without the flag being set
C36_Witness ==
    /\ ww.pc = "stopped" /\ ~ww.shutdown
    /\ \E i \in 1..Len(jobs) : IsInvoiceCase(jobs[i]) /\ jobs[i].status = "completed"
    /\ watchers[<<LoopWallet, "r1">>] = NoRow

\* the node calls and the starts of work, seen in one step of the worker:
\* the list_transfers request of a pass is sent; the pass that follows its
\* answer calls fail_transfers, calls refresh_wallet; a job is dequeued;
\* watch_transfer is called for a watcher
IssuesListTransfers ==
    wt[LoopWorker].pc = "poll" /\ wt'[LoopWorker].pc = "status"
PassAnswered ==
    wt[LoopWorker].pc = "status" /\ wt'[LoopWorker].pc \in {"poll", "stopping"}
CallsFailTransfers == PassAnswered /\ failCalls' # failCalls
CallsRefreshWallet ==
    PassAnswered /\ wt'[LoopWorker].refreshed \in {"raised", "empty", "ok", "failure"}
StartsJob == wpc[LoopWorker] = "idle" /\ wpc'[LoopWorker] = "holding"
StartsWatcher == wt[LoopWorker].pc = "idle" /\ wt'[LoopWorker].pc = "ensure"

\* C31: once the shutdown flag is set, the HTTP call in flight is left to
\* complete, watch_transfer issues no further node call after it and
\* returns at its next test of the flag, the worker starts no further job
\* or watcher, and its main loop ends.
C31_Step ==
    ww.shutdown =>
       /\ ~IssuesListTransfers /\ ~CallsFailTransfers /\ ~CallsRefreshWallet
       /\ ~StartsJob /\ ~StartsWatcher
C31_ShutdownStopsCalls ==
    /\ [][C31_Step]_vars
    /\ (ww.shutdown ~> ww.pc = "stopped")

\* what the code does: with the flag set no pass is begun and no job or
\* watcher is started, and the main loop ends
NoStartAfterFlagStep ==
    ww.shutdown => ~IssuesListTransfers /\ ~StartsJob /\ ~StartsWatcher
ShutdownEndsWorker ==
    /\ [][NoStartAfterFlagStep]_vars
    /\ (ww.shutdown ~> ww.pc = "stopped")

\* ------------------------------------------------------------------------
\* Claim on deferred and dead workers
\* ------------------------------------------------------------------------
\* one manual refresh request for a wallet that has none yet
RequestOnce(x) ==
    /\ \A i \in 1..Len(jobs) : jobs[i].xpub_van # x
    /\ jobs' = Append(jobs, [xpub_van |-> x, trigger |-> "manual",
                             recipient_id |-> NoRecipient, asset_id |-> NoAsset,
                             status |-> "pending", attempts |-> 0,
                             locked_by |-> NoWorker])
    /\ hist' = Append(hist, <<"pending">>)
    /\ UNCHANGED <<now, wpc, wjob, watchers, RestJ>>

\* the order in which the requests of the wallets arrive
RequestOrder == <<"w1", "w2", "w3">>

\* a worker whose wallet has no pending job ends by its idle timeout
WorkerIdleExit(pid) ==
    /\ pid \in 1..Len(procs)
    /\ DequeueCandidates(procs[pid].wallet) = {}
    /\ WorkerExits(pid)

\* the running supervisor with a request for every wallet of SupWallets,
\* one after the other; Popen succeeds; a worker may end at any time
NextRespawn ==
    \/ \E n \in DOMAIN RequestOrder :
          Len(jobs) = n - 1 /\ RequestOnce(RequestOrder[n])
    \/ \E c \in BOOLEAN, q \in BOOLEAN : SupervisorPoll(c, q)
    \/ \E x \in SupWallets : SupervisorVisit(x, TRUE)
    \/ \E pid \in 1..MaxSpawns : WorkerExits(pid)
    \/ \E pid \in 1..MaxSpawns : WorkerRunsJob(pid)

\* the supervisor goes round its loop and its queries are answered in the
\* end; a running worker processes the jobs of its wallet and, with none
\* left, ends by its idle timeout
SpecRespawn ==
    /\ Init /\ [][NextRespawn]_vars
    /\ WF_vars(\E c \in BOOLEAN : SupervisorPoll(c, TRUE))
    /\ WF_vars(\E x \in SupWallets : SupervisorVisit(x, TRUE))
    /\ \A pid \in 1..MaxSpawns :
          WF_vars(WorkerRunsJob(pid)) /\ WF_vars(WorkerIdleExit(pid))

====
